---- MODULE Spec2Model ----
(***************************************************************************)
(* Model of the aviation text pipeline of backend-python-nlp:              *)
(*   nlp/notam_parser.py   NOTAMParser  (parse, parse_multiple, ...)       *)
(*   nlp/summary_model.py  WeatherSummarizer (categorize_weather_conditions,*)
(*                         _enhanced_pilot_metar_summary,                   *)
(*                         assess_flight_conditions)                        *)
(* A text is a sequence of one-character strings.  The regular expressions *)
(* of the source are data (sequences of atoms) interpreted by ReSearch,    *)
(* which follows Python's re.search: leftmost start, alternatives in       *)
(* order, greedy repetition with backtracking.                             *)
(***************************************************************************)
EXTENDS Integers, Sequences, FiniteSets, TLC

(* ------------------------------ bounds --------------------------------- *)
\* number of vocabulary fragments a generated NOTAM text is composed of
MaxWords == 2

(* ---------------------------- characters ------------------------------- *)
LowerAlpha == <<"a","b","c","d","e","f","g","h","i","j","k","l","m","n","o","p","q","r","s","t","u","v","w","x","y","z">>
UpperAlpha == <<"A","B","C","D","E","F","G","H","I","J","K","L","M","N","O","P","Q","R","S","T","U","V","W","X","Y","Z">>
DigitChars == <<"0","1","2","3","4","5","6","7","8","9">>

Range(s) == {s[i] : i \in 1..Len(s)}

LowerSet == Range(LowerAlpha)
UpperSet == Range(UpperAlpha)
DigitSet == Range(DigitChars)
\* \s of Python's re (the members that occur in the modelled inputs)
SpaceSet == {" ", "\n", "\t"}
\* \w of Python's re
WordSet == LowerSet \cup UpperSet \cup DigitSet \cup {"_"}

\* a character class: the characters of set, or all others when neg
Cls(set) == [neg |-> FALSE, set |-> set]
NotCls(set) == [neg |-> TRUE, set |-> set]
InClass(ch, c) == (ch \in c.set) # c.neg
\* \d, \s, [A-Z], and '.' without DOTALL (anything but a newline)
Digit == Cls(DigitSet)
Space == Cls(SpaceSet)
Upcase == Cls(UpperSet)
Dot == NotCls({"\n"})

IndexOf(s, c) == CHOOSE i \in 1..Len(s) : s[i] = c

\* str.lower() / str.upper(), character by character
LowerChar(c) == IF c \in UpperSet THEN LowerAlpha[IndexOf(UpperAlpha, c)] ELSE c
UpperChar(c) == IF c \in LowerSet THEN UpperAlpha[IndexOf(LowerAlpha, c)] ELSE c
Lower(t) == [i \in 1..Len(t) |-> LowerChar(t[i])]
Upper(t) == [i \in 1..Len(t) |-> UpperChar(t[i])]

\* Python's  sub in text
Contains(text, sub) ==
    \E i \in 1..(Len(text) - Len(sub) + 1) : SubSeq(text, i, i + Len(sub) - 1) = sub

\* any(k in text for k in keys)
ContainsAny(text, keys) == \E k \in keys : Contains(text, k)

\* int(s) succeeds exactly on a non-empty run of digits (no sign or blank
\* can be captured by the patterns of the source)
IsIntLiteral(s) == Len(s) > 0 /\ \A i \in 1..Len(s) : s[i] \in DigitSet
DigitVal(c) == IndexOf(DigitChars, c) - 1
RECURSIVE ToInt(_)
ToInt(s) == IF Len(s) = 0 THEN 0
            ELSE 10 * ToInt(SubSeq(s, 1, Len(s) - 1)) + DigitVal(s[Len(s)])

Max(S) == CHOOSE x \in S : \A y \in S : y <= x
Min(S) == CHOOSE x \in S : \A y \in S : x <= y

(* ------------------------- regular expressions ------------------------- *)
Lit(s) == [k |-> "lit", s |-> s]
Rep(c, lo, hi) == [k |-> "cls", c |-> c, lo |-> lo, hi |-> hi]
\* hi < 0: unbounded repetition
Star(c) == Rep(c, 0, -1)
Plus(c) == Rep(c, 1, -1)
One(c) == Rep(c, 1, 1)
Opt(c) == Rep(c, 0, 1)
\* \b
WordB == [k |-> "wb"]
\* ^ (without MULTILINE)
Bol == [k |-> "bol"]
\* (?:\s*(?:w1|w2|...))?  an optional group: blanks, then one of the words
OptWords(words) == [k |-> "words", words |-> words]
\* an alternative: its atoms and, per capture group, the atoms it spans
\* (<<0, 0>> for a group that is not part of this alternative)
Alt(atoms, groups) == [atoms |-> atoms, groups |-> groups]
NoMatch == [ok |-> FALSE, ends |-> <<>>]

\* the least member of a set of positive numbers, 0 for the empty set
FirstOr0(S) == IF S = {} THEN 0 ELSE Min(S)

\* length of the run of characters of class c starting at p, capped at hi
RunLimit(text, p, hi) == IF hi >= 0 /\ hi < Len(text) - p + 1 THEN hi ELSE Len(text) - p + 1
RunLen(text, p, c, hi) ==
    IF RunLimit(text, p, hi) = 0 \/ ~InClass(text[p], c) THEN 0
    ELSE Min({n \in 0..RunLimit(text, p, hi) : n = RunLimit(text, p, hi) \/ ~InClass(text[p + n], c)})

IsWordAt(text, i) == i >= 1 /\ i <= Len(text) /\ text[i] \in WordSet

\* an atom matched up to position end, followed by the match r of the rest
Then(end, r) == IF r.ok THEN [ok |-> TRUE, ends |-> <<end>> \o r.ends] ELSE NoMatch

\* match atoms k.. of one alternative at position p; ends[j] is the position
\* after atom k+j-1.  A repetition takes the longest run that lets the rest
\* match (greedy, backtracking): Longest, over the run lengths in fits.
RECURSIVE MatchAt(_, _, _, _)
\* the position after word i at q, 0 if the word is not there
WordEnd(words, i, text, q) ==
    IF /\ q + Len(words[i]) - 1 <= Len(text)
       /\ text[q] = words[i][1]
       /\ SubSeq(text, q, q + Len(words[i]) - 1) = words[i]
    THEN q + Len(words[i]) ELSE 0
\* the optional group taken with word i after the blanks that end before q,
\* left out for i = 0
Worded(atoms, k, text, p, q, i) ==
    IF i = 0 THEN Then(p, MatchAt(atoms, k + 1, text, p))
    ELSE Then(WordEnd(atoms[k].words, i, text, q),
              MatchAt(atoms, k + 1, text, WordEnd(atoms[k].words, i, text, q)))
\* the first word, in order, that stands at q and lets the rest match
FirstWord(atoms, k, text, q) ==
    FirstOr0({i \in 1..Len(atoms[k].words) :
                 /\ WordEnd(atoms[k].words, i, text, q) # 0
                 /\ MatchAt(atoms, k + 1, text, WordEnd(atoms[k].words, i, text, q)).ok})
Longest(atoms, k, text, p, fits) ==
    IF fits = {} THEN NoMatch
    ELSE Then(p + Max(fits), MatchAt(atoms, k + 1, text, p + Max(fits)))

MatchAt(atoms, k, text, p) ==
    IF k > Len(atoms) THEN [ok |-> TRUE, ends |-> <<>>]
    ELSE CASE atoms[k].k = "lit" ->
                IF /\ p + Len(atoms[k].s) - 1 <= Len(text)
                   /\ (Len(atoms[k].s) = 0 \/ text[p] = atoms[k].s[1])
                   /\ SubSeq(text, p, p + Len(atoms[k].s) - 1) = atoms[k].s
                THEN Then(p + Len(atoms[k].s), MatchAt(atoms, k + 1, text, p + Len(atoms[k].s)))
                ELSE NoMatch
           [] atoms[k].k = "wb" ->
                IF IsWordAt(text, p - 1) # IsWordAt(text, p)
                THEN Then(p, MatchAt(atoms, k + 1, text, p))
                ELSE NoMatch
           [] atoms[k].k = "bol" ->
                IF p = 1 THEN Then(p, MatchAt(atoms, k + 1, text, p)) ELSE NoMatch
           [] atoms[k].k = "words" ->
                \* no word begins with a blank: a word follows the whole run of blanks
                Worded(atoms, k, text, p, p + RunLen(text, p, Space, -1),
                       FirstWord(atoms, k, text, p + RunLen(text, p, Space, -1)))
           [] atoms[k].k = "cls" ->
                IF atoms[k].lo > 0 /\ (p > Len(text) \/ ~InClass(text[p], atoms[k].c))
                THEN NoMatch
                ELSE Longest(atoms, k, text, p,
                             {n \in atoms[k].lo..RunLen(text, p, atoms[k].c, atoms[k].hi) :
                                 MatchAt(atoms, k + 1, text, p + n).ok})

\* the first alternative (in order) that matches at p, 0 if none
AltAt(re, text, p) == FirstOr0({i \in 1..Len(re) : MatchAt(re[i].atoms, 1, text, p).ok})

NotFound == [found |-> FALSE]

\* the match object of alternative i at p
Hit(p, i, ends) ==
    [found |-> TRUE, start |-> p, alt |-> i, ends |-> ends,
     stop |-> IF Len(ends) = 0 THEN p ELSE ends[Len(ends)]]
HitAt(re, text, p) ==
    IF p = 0 THEN NotFound
    ELSE Hit(p, AltAt(re, text, p), MatchAt(re[AltAt(re, text, p)].atoms, 1, text, p).ends)

\* the leftmost position at or after p where the pattern matches, 0 if none;
\* the text is searched in stretches of sixteen positions
RECURSIVE FirstAt(_, _, _)
OrLater(q, re, text, p) == IF q # 0 THEN q ELSE FirstAt(re, text, p + 16)
FirstAt(re, text, p) ==
    IF p > Len(text) + 1 THEN 0
    ELSE OrLater(FirstOr0({q \in p..Min({p + 15, Len(text) + 1}) : AltAt(re, text, q) # 0}),
                 re, text, p)
\* re.compile(re).search(text, from): leftmost match starting at or after from
SearchFrom(re, text, from) == HitAt(re, text, FirstAt(re, text, from))

\* re.search(re, text)
ReSearch(re, text) == SearchFrom(re, text, 1)
Matches(re, text) == \E p \in 1..(Len(text) + 1) : AltAt(re, text, p) # 0

\* match.group(0)
Group0(text, m) == SubSeq(text, m.start, m.stop - 1)
\* Python values that may be None: None itself and a str
None == [kind |-> "none"]
Str(chars) == [kind |-> "str", s |-> chars]
\* the characters of match.group(g), g >= 1, for a group that took part
GroupSpan(re, m, g) == re[m.alt].groups[g]
GroupChars(re, text, m, g) ==
    SubSeq(text,
           IF GroupSpan(re, m, g)[1] = 1 THEN m.start ELSE m.ends[GroupSpan(re, m, g)[1] - 1],
           m.ends[GroupSpan(re, m, g)[2]] - 1)
\* match.group(g): None for a group that did not take part in the match
Group(re, text, m, g) ==
    IF GroupSpan(re, m, g)[1] = 0 THEN None ELSE Str(GroupChars(re, text, m, g))

\* the positions where the pattern matches
Starts(re, text) == {p \in 1..(Len(text) + 1) : AltAt(re, text, p) # 0}
\* re.finditer(re, text): successive non-overlapping matches, left to right,
\* each the match at the first of the positions not before the last end
RECURSIVE FindIterFrom(_, _, _, _)
Successive(re, text, starts, m) ==
    IF ~m.found THEN <<>>
    ELSE <<m>> \o FindIterFrom(re, text, starts, IF m.stop = m.start THEN m.stop + 1 ELSE m.stop)
FindIterFrom(re, text, starts, from) ==
    Successive(re, text, starts, HitAt(re, text, FirstOr0({p \in starts : p >= from})))
FindIter(re, text) == FindIterFrom(re, text, Starts(re, text), 1)

\* the outcome of a call: the value returned or the exception raised
Returned(value) == [raised |-> FALSE, value |-> value]
Raised(exc) == [raised |-> TRUE, exc |-> exc]

\* a pattern without alternation and without groups
Pat(atoms) == <<Alt(atoms, <<>>)>>
\* a pattern without alternation whose only group spans atoms i..j
Pat1(atoms, i, j) == <<Alt(atoms, <<<<i, j>>>>)>>
\* lit1 .* lit2, the shape of most classification patterns
DotStar == Star(Dot)
L2(a, b) == Pat(<<Lit(a), DotStar, Lit(b)>>)
L3(a, b, c) == Pat(<<Lit(a), DotStar, Lit(b), DotStar, Lit(c)>>)
L4(a, b, c, d) == Pat(<<Lit(a), DotStar, Lit(b), DotStar, Lit(c), DotStar, Lit(d)>>)

(* ===================== nlp/notam_parser.py: NOTAMParser ================ *)

(* ---- pattern tables of __init__ (matched against the lowercased text) -- *)
severity_patterns ==
    [ high |-> <<
       L2(<<"r","u","n","w","a","y">>, <<"c","l","o","s","e","d">>),
       L2(<<"a","i","r","p","o","r","t">>, <<"c","l","o","s","e","d">>),
       L3(<<"a","p","p","r","o","a","c","h">>, <<"n","o","t">>, <<"a","v","a","i","l","a","b","l","e">>),
       L4(<<"i","l","s">>, <<"o","u","t">>, <<"o","f">>, <<"s","e","r","v","i","c","e">>),
       L2(<<"t","o","w","e","r">>, <<"c","l","o","s","e","d">>),
       L3(<<"f","u","e","l">>, <<"n","o","t">>, <<"a","v","a","i","l","a","b","l","e">>),
       L2(<<"e","m","e","r","g","e","n","c","y">>, <<"o","n","l","y">>),
       L2(<<"m","i","l","i","t","a","r","y">>, <<"o","p","e","r","a","t","i","o","n">>),
       L3(<<"d","a","n","g","e","r">>, <<"a","r","e","a">>, <<"a","c","t","i","v","e">>),
       L3(<<"r","e","s","t","r","i","c","t","e","d">>, <<"a","r","e","a">>, <<"a","c","t","i","v","e">>) >>,
      medium |-> <<
       L2(<<"t","a","x","i","w","a","y">>, <<"c","l","o","s","e","d">>),
       L2(<<"p","a","r","k","i","n","g">>, <<"r","e","s","t","r","i","c","t","e","d">>),
       L4(<<"l","i","g","h","t","i","n","g">>, <<"o","u","t">>, <<"o","f">>, <<"s","e","r","v","i","c","e">>),
       L2(<<"n","a","v","a","i","d">>, <<"u","n","r","e","l","i","a","b","l","e">>),
       L2(<<"f","r","e","q","u","e","n","c","y">>, <<"c","h","a","n","g","e">>),
       L2(<<"c","o","n","s","t","r","u","c","t","i","o","n">>, <<"w","o","r","k">>),
       L2(<<"o","b","s","t","a","c","l","e">>, <<"i","n","s","t","a","l","l","e","d">>),
       L2(<<"b","i","r","d">>, <<"a","c","t","i","v","i","t","y">>) >>,
      low |-> <<
       L2(<<"c","h","a","r","t">>, <<"c","h","a","n","g","e">>),
       L2(<<"a","e","r","o","d","r","o","m","e">>, <<"i","n","f","o","r","m","a","t","i","o","n">>),
       L2(<<"p","i","l","o","t","s">>, <<"a","d","v","i","s","e","d">>),
       L2(<<"i","n","f","o","r","m","a","t","i","o","n">>, <<"o","n","l","y">>),
       L2(<<"f","r","e","q","u","e","n","c","y">>, <<"a","v","a","i","l","a","b","l","e">>),
       L2(<<"c","o","n","t","a","c","t">>, <<"i","n","f","o","r","m","a","t","i","o","n">>) >> ]

\* fm\s*(\d{10})   effective\s*(\d{10})   (\d{10})\s*utc
\* til\s*(\d{10})   until\s*(\d{10})   (\d{10})\s*est
\* daily\s*(\d{4})-(\d{4})   (\d{4})-(\d{4})\s*daily
time_patterns ==
    [ effective_from |-> <<
          Pat1(<<Lit(<<"f","m">>), Star(Space), Rep(Digit, 10, 10)>>, 3, 3),
          Pat1(<<Lit(<<"e","f","f","e","c","t","i","v","e">>), Star(Space), Rep(Digit, 10, 10)>>, 3, 3),
          Pat1(<<Rep(Digit, 10, 10), Star(Space), Lit(<<"u","t","c">>)>>, 1, 1) >>,
      effective_until |-> <<
          Pat1(<<Lit(<<"t","i","l">>), Star(Space), Rep(Digit, 10, 10)>>, 3, 3),
          Pat1(<<Lit(<<"u","n","t","i","l">>), Star(Space), Rep(Digit, 10, 10)>>, 3, 3),
          Pat1(<<Rep(Digit, 10, 10), Star(Space), Lit(<<"e","s","t">>)>>, 1, 1) >>,
      daily_times |-> <<
          <<Alt(<<Lit(<<"d","a","i","l","y">>), Star(Space), Rep(Digit, 4, 4), Lit(<<"-">>), Rep(Digit, 4, 4)>>,
                <<<<3, 3>>, <<5, 5>>>>)>>,
          <<Alt(<<Rep(Digit, 4, 4), Lit(<<"-">>), Rep(Digit, 4, 4), Star(Space), Lit(<<"d","a","i","l","y">>)>>,
                <<<<1, 1>>, <<3, 3>>>>)>> >> ]

\* the impact types in dictionary order
impact_patterns ==
    << [type |-> "closure",
        patterns |-> << Pat(<<Lit(<<"c","l","o","s","e","d">>)>>), Pat(<<Lit(<<"c","l","s","d">>)>>),
                        L2(<<"n","o","t">>, <<"a","v","a","i","l","a","b","l","e">>), L3(<<"o","u","t">>, <<"o","f">>, <<"s","e","r","v","i","c","e">>),
                        Pat(<<Lit(<<"u","n","a","v","b","l">>)>>) >>],
       [type |-> "restriction",
        patterns |-> << Pat(<<Lit(<<"r","e","s","t","r","i","c","t","e","d">>)>>), Pat(<<Lit(<<"l","i","m","i","t","e","d">>)>>),
                        Pat(<<Lit(<<"c","a","u","t","i","o","n">>)>>), Pat(<<Lit(<<"a","v","o","i","d">>)>>),
                        Pat(<<Lit(<<"d","i","s","p","l","a","c","e","d">>)>>) >>],
       [type |-> "information",
        patterns |-> << Pat(<<Lit(<<"a","d","v","i","s","e">>)>>), Pat(<<Lit(<<"i","n","f","o","r","m","a","t","i","o","n">>)>>),
                        Pat(<<Lit(<<"n","o","t","e">>)>>), L2(<<"p","i","l","o","t","s">>, <<"a","d","v","i","s","e","d">>),
                        Pat(<<Lit(<<"c","o","o","r","d">>)>>) >>] >>

\* any(re.search(p, text) for p in patterns)
AnyMatch(patterns, text) == \E i \in 1..Len(patterns) : Matches(patterns[i], text)
\* the number of patterns of a list that match
CountMatches(patterns, text) == Cardinality({i \in 1..Len(patterns) : Matches(patterns[i], text)})

(* ---- _extract_notam_id ---- *)
\* notam\s*([A-Z]\d{4}/\d{2})  ([A-Z]\d{4}/\d{2})  notam\s*([A-Z]{4}\d{4})  ([A-Z]{4}\d{4})
notam_id_patterns ==
    << Pat1(<<Lit(<<"n","o","t","a","m">>), Star(Space), One(Upcase), Rep(Digit, 4, 4), Lit(<<"/">>), Rep(Digit, 2, 2)>>, 3, 6),
       Pat1(<<One(Upcase), Rep(Digit, 4, 4), Lit(<<"/">>), Rep(Digit, 2, 2)>>, 1, 4),
       Pat1(<<Lit(<<"n","o","t","a","m">>), Star(Space), Rep(Upcase, 4, 4), Rep(Digit, 4, 4)>>, 3, 4),
       Pat1(<<Rep(Upcase, 4, 4), Rep(Digit, 4, 4)>>, 1, 2) >>

\* match.group(1) of pattern i of the list, None for i = 0
CapturedBy(patterns, text, i) ==
    IF i = 0 THEN None ELSE Group(patterns[i], text, ReSearch(patterns[i], text), 1)
\* the group(1) of the first pattern of the list that matches, else None
FirstGroup1(patterns, text) ==
    CapturedBy(patterns, text, FirstOr0({i \in 1..Len(patterns) : Matches(patterns[i], text)}))

_extract_notam_id(text) == FirstGroup1(notam_id_patterns, Upper(text))

(* ---- _extract_airport_code ---- *)
\* A\)\s*([A-Z]{4})   Q\)\s*([A-Z]{4})   \b([A-Z]{4})\b
airport_code_patterns ==
    << Pat1(<<Lit(<<"A",")">>), Star(Space), Rep(Upcase, 4, 4)>>, 3, 3),
       Pat1(<<Lit(<<"Q",")">>), Star(Space), Rep(Upcase, 4, 4)>>, 3, 3),
       Pat1(<<WordB, Rep(Upcase, 4, 4), WordB>>, 2, 2) >>

\* variant: the bare four-letter token is looked for before the markers
ExtractBareTokenFirst(text) ==
    IF Len(text) = 0 THEN None
    ELSE FirstGroup1(<<airport_code_patterns[3], airport_code_patterns[1], airport_code_patterns[2]>>,
                     Upper(text))

\* 'if not text: return None' precedes every use of the text
_extract_airport_code(text) ==
    IF Len(text) = 0 THEN None ELSE FirstGroup1(airport_code_patterns, Upper(text))

(* ---- _classify_severity ---- *)
\* severity_scores: per tier, the number of its patterns that match
severity_scores(text) ==
    [tier \in {"high", "medium", "low"} |-> CountMatches(severity_patterns[tier], Lower(text))]

\* variant: the fall-through tier is 'low'
HighestTierOrLow(scores) ==
    IF scores["high"] > 0 THEN "high"
    ELSE IF scores["medium"] > 0 THEN "medium"
    ELSE "low"

\* the if/elif chain over severity_scores
HighestTier(scores) ==
    IF scores["high"] > 0 THEN "high"
    ELSE IF scores["medium"] > 0 THEN "medium"
    ELSE IF scores["low"] > 0 THEN "low"
    ELSE "medium"

_classify_severity(text) == HighestTier(severity_scores(text))

(* ---- _determine_category ---- *)
\* the categories in dictionary order, each with its keywords
categories ==
    << [category |-> "runway", keywords |-> {<<"r","u","n","w","a","y">>, <<"r","w","y">>}],
       [category |-> "taxiway", keywords |-> {<<"t","a","x","i","w","a","y">>, <<"t","w","y">>}],
       [category |-> "approach", keywords |-> {<<"a","p","p","r","o","a","c","h">>, <<"a","p","p">>, <<"i","l","s">>, <<"v","o","r">>, <<"r","n","a","v">>}],
       [category |-> "navigation", keywords |-> {<<"n","a","v","a","i","d">>, <<"v","o","r">>, <<"n","d","b">>, <<"d","m","e">>, <<"v","o","r","t","a","c">>}],
       [category |-> "lighting", keywords |-> {<<"l","i","g","h","t">>, <<"l","i","g","h","t","i","n","g">>, <<"b","e","a","c","o","n">>}],
       [category |-> "airspace", keywords |-> {<<"a","i","r","s","p","a","c","e">>, <<"r","e","s","t","r","i","c","t","e","d">>, <<"d","a","n","g","e","r">>, <<"p","r","o","h","i","b","i","t","e","d">>}],
       [category |-> "obstacle", keywords |-> {<<"o","b","s","t","a","c","l","e">>, <<"o","b","s","t","r","u","c","t","i","o","n">>, <<"c","r","a","n","e">>, <<"t","o","w","e","r">>}],
       [category |-> "service", keywords |-> {<<"f","u","e","l">>, <<"s","e","r","v","i","c","e">>, <<"m","a","i","n","t","e","n","a","n","c","e">>, <<"c","l","o","s","e","d">>}],
       [category |-> "frequency", keywords |-> {<<"f","r","e","q","u","e","n","c","y">>, <<"f","r","e","q">>, <<"r","a","d","i","o">>}],
       [category |-> "other", keywords |-> {}] >>

\* the first category with a keyword in the text; 'other', the last entry,
\* has no keyword and is the value returned after the loop
_determine_category(text) ==
    categories[Min({i \in 1..Len(categories) :
                       \/ i = Len(categories)
                       \/ ContainsAny(Lower(text), categories[i].keywords)})].category

(* ---- _parse_notam_datetime ---- *)
IsLeap(y) == (y % 4 = 0 /\ y % 100 # 0) \/ y % 400 = 0
DaysInMonth(y, m) ==
    IF m = 2 THEN (IF IsLeap(y) THEN 29 ELSE 28)
    ELSE IF m \in {4, 6, 9, 11} THEN 30 ELSE 31
\* datetime(year, month, day, hour, minute) raises ValueError unless
ValidDateTime(y, mo, d, h, mi) ==
    /\ y \in 1..9999
    /\ mo \in 1..12
    /\ d \in 1..DaysInMonth(y, mo)
    /\ h \in 0..23
    /\ mi \in 0..59
\* f"{n:02d}" and f"{n:04d}"
Fmt2(n) == <<DigitChars[((n \div 10) % 10) + 1], DigitChars[(n % 10) + 1]>>
Fmt4(n) == Fmt2(n \div 100) \o Fmt2(n % 100)
\* datetime.isoformat() of a datetime without seconds, followed by 'Z'
IsoFormatZ(y, mo, d, h, mi) ==
    Fmt4(y) \o <<"-">> \o Fmt2(mo) \o <<"-">> \o Fmt2(d) \o <<"T">> \o Fmt2(h) \o <<":">>
            \o Fmt2(mi) \o <<":","0","0">> \o <<"Z">>

\* the isoformat of the datetime, None when its constructor raises
\* (the ValueError is caught and logged)
MakeInstant(year, month, day, hour, minute) ==
    IF ValidDateTime(year, month, day, hour, minute)
    THEN Str(IsoFormatZ(year, month, day, hour, minute))
    ELSE None

_parse_notam_datetime(datetime_str) ==
    IF Len(datetime_str) = 10
    THEN MakeInstant(2000 + ToInt(SubSeq(datetime_str, 1, 2)),
                     ToInt(SubSeq(datetime_str, 3, 4)),
                     ToInt(SubSeq(datetime_str, 5, 6)),
                     ToInt(SubSeq(datetime_str, 7, 8)),
                     ToInt(SubSeq(datetime_str, 9, 10)))
    ELSE None

(* ---- _extract_time_information ---- *)
\* perm|permanent
perm_pattern == <<Alt(<<Lit(<<"p","e","r","m">>)>>, <<>>), Alt(<<Lit(<<"p","e","r","m","a","n","e","n","t">>)>>, <<>>)>>

\* the greatest member of a set of positive numbers, 0 for the empty set
LastOr0(S) == IF S = {} THEN 0 ELSE Max(S)

\* the token captured by the last pattern of the list that matches (every
\* matching pattern assigns the field, in table order); None when none does
LastCaptured(patterns, text) ==
    CapturedBy(patterns, text, LastOr0({i \in 1..Len(patterns) : Matches(patterns[i], text)}))

\* the field assigned from a captured token
ParsedToken(token) == IF token = None THEN None ELSE _parse_notam_datetime(token.s)

\* daily_times as assigned by daily pattern i, None for i = 0
DailyTimes(low, i, m) ==
    IF i = 0 THEN None
    ELSE [from |-> Group(time_patterns.daily_times[i], low, m, 1),
          until |-> Group(time_patterns.daily_times[i], low, m, 2)]
DailyTimesBy(low, i) ==
    DailyTimes(low, i, IF i = 0 THEN NotFound ELSE ReSearch(time_patterns.daily_times[i], low))

TimeInformation(low) ==
    [effective_from |-> ParsedToken(LastCaptured(time_patterns.effective_from, low)),
     effective_until |-> ParsedToken(LastCaptured(time_patterns.effective_until, low)),
     daily_times |->
         DailyTimesBy(low, LastOr0({i \in 1..Len(time_patterns.daily_times) :
                                       Matches(time_patterns.daily_times[i], low)})),
     is_permanent |-> Matches(perm_pattern, low),
     is_temporary |-> ~Matches(perm_pattern, low)]

_extract_time_information(text) == TimeInformation(Lower(text))

(* ---- _extract_altitudes ---- *)
\* sfc.*fl(\d{3})  surface.*(\d{1,2},?\d{3})\s*ft  fl(\d{3})  (\d{1,2},?\d{3})\s*ft.*msl
alt_patterns ==
    << Pat1(<<Lit(<<"s","f","c">>), DotStar, Lit(<<"f","l">>), Rep(Digit, 3, 3)>>, 4, 4),
       Pat1(<<Lit(<<"s","u","r","f","a","c","e">>), DotStar, Rep(Digit, 1, 2), Opt(Cls({","})), Rep(Digit, 3, 3),
              Star(Space), Lit(<<"f","t">>)>>, 3, 5),
       Pat1(<<Lit(<<"f","l">>), Rep(Digit, 3, 3)>>, 2, 2),
       Pat1(<<Rep(Digit, 1, 2), Opt(Cls({","})), Rep(Digit, 3, 3), Star(Space), Lit(<<"f","t">>),
              DotStar, Lit(<<"m","s","l">>)>>, 1, 3) >>

\* s.replace(',', '')
NotComma(c) == c # ","
RemoveCommas(s) == SelectSeq(s, NotComma)

\* the matches of one pattern, each with what the loop body reads from it
HitsOf(pattern, low, ms) ==
    [j \in 1..Len(ms) |-> [is_fl |-> Contains(Group0(low, ms[j]), <<"f","l">>),
                           captured |-> GroupChars(pattern, low, ms[j], 1)]]

\* the matches the two nested loops visit, in order: per pattern, per match
RECURSIVE AltitudeHits(_, _)
AltitudeHits(low, i) ==
    IF i > Len(alt_patterns) THEN <<>>
    ELSE HitsOf(alt_patterns[i], low, FindIter(alt_patterns[i], low))
         \o AltitudeHits(low, i + 1)

IsFlightLevel(hit) == hit.is_fl
IsRestriction(hit) == ~hit.is_fl
FlightLevels(hits) == [j \in 1..Len(hits) |-> ToInt(hits[j].captured) * 100]
Restrictions(hits) == [j \in 1..Len(hits) |-> ToInt(RemoveCommas(hits[j].captured))]

\* int(match.group(1)) is not guarded: a capture with a comma raises ValueError
Altitudes(hits) ==
    IF \E j \in 1..Len(hits) : hits[j].is_fl /\ ~IsIntLiteral(hits[j].captured)
    THEN Raised("ValueError")
    ELSE Returned([surface_to |-> None,
                   flight_levels |-> FlightLevels(SelectSeq(hits, IsFlightLevel)),
                   restrictions |-> Restrictions(SelectSeq(hits, IsRestriction))])

_extract_altitudes(text) == Altitudes(AltitudeHits(Lower(text), 1))

(* ---- _extract_coordinates ---- *)
\* (\d{2})(\d{2})(\d{2})[nNsS]\s*(\d{3})(\d{2})(\d{2})[eEwW]   and
\* (\d{4}[nNsS]\d{5}[eEwW]), searched in the uppercased text
coord_patterns ==
    << <<Alt(<<Rep(Digit, 2, 2), Rep(Digit, 2, 2), Rep(Digit, 2, 2), One(Cls({"N", "S"})), Star(Space),
               Rep(Digit, 3, 3), Rep(Digit, 2, 2), Rep(Digit, 2, 2), One(Cls({"E", "W"}))>>,
             <<<<1, 1>>, <<2, 2>>, <<3, 3>>, <<6, 6>>, <<7, 7>>, <<8, 8>>>>)>>,
       <<Alt(<<Rep(Digit, 4, 4), One(Cls({"N", "S"})), Rep(Digit, 5, 5), One(Cls({"E", "W"}))>>,
             <<<<1, 4>>>>)>> >>

\* variant: the seconds are dropped
DecimalWithoutSeconds(negative, deg, min, sec) ==
    [negative |-> negative, arcseconds |-> 3600 * deg + 60 * min]

\* deg + min/60 + sec/3600, negated for the S or W hemisphere: a float is a
\* sign and a magnitude, the magnitude counted in 1/3600 of a degree
Decimal(negative, deg, min, sec) ==
    [negative |-> negative, arcseconds |-> 3600 * deg + 60 * min + sec]

\* the conversion of the groups of a match of pattern
Converted(pattern, text_upper, m) ==
    [latitude |-> Decimal(Contains(Group0(text_upper, m), <<"S">>),
                          ToInt(GroupChars(pattern, text_upper, m, 1)),
                          ToInt(GroupChars(pattern, text_upper, m, 2)),
                          ToInt(GroupChars(pattern, text_upper, m, 3))),
     longitude |-> Decimal(Contains(Group0(text_upper, m), <<"W">>),
                           ToInt(GroupChars(pattern, text_upper, m, 4)),
                           ToInt(GroupChars(pattern, text_upper, m, 5)),
                           ToInt(GroupChars(pattern, text_upper, m, 6)))]

\* the first pattern that matches and has six groups, 0 if none
ConvertibleBy(text_upper) ==
    FirstOr0({i \in 1..Len(coord_patterns) :
                 Matches(coord_patterns[i], text_upper) /\ Len(coord_patterns[i][1].groups) >= 6})
CoordinatesBy(text_upper, i) ==
    IF i = 0 THEN None
    ELSE Converted(coord_patterns[i], text_upper, ReSearch(coord_patterns[i], text_upper))
_extract_coordinates(text) == CoordinatesBy(Upper(text), ConvertibleBy(Upper(text)))

(* ---- _analyze_impact ---- *)
high_impact_terms == <<<<"c","l","o","s","e","d">>, <<"u","n","a","v","a","i","l","a","b","l","e">>, <<"e","m","e","r","g","e","n","c","y">>, <<"d","a","n","g","e","r">>>>
medium_impact_terms == <<<<"r","e","s","t","r","i","c","t","e","d">>, <<"c","a","u","t","i","o","n">>, <<"d","i","s","p","l","a","c","e","d">>, <<"l","i","m","i","t","e","d">>>>

\* the number of terms of the list that occur in the text
TermsPresent(terms, text) == Cardinality({i \in 1..Len(terms) : Contains(text, terms[i])})

\* the type of the first entry of impact_patterns with a matching pattern
ImpactType(i) == IF i = 0 THEN "unknown" ELSE impact_patterns[i].type

Impact(low) ==
    [type |-> ImpactType(FirstOr0({i \in 1..Len(impact_patterns) :
                                      AnyMatch(impact_patterns[i].patterns, low)})),
     severity_score |-> 3 * TermsPresent(high_impact_terms, low)
                        + TermsPresent(medium_impact_terms, low),
     affected_phases |->
         (IF ContainsAny(low, {<<"r","u","n","w","a","y">>, <<"t","a","k","e","o","f","f">>, <<"l","a","n","d","i","n","g">>})
          THEN <<"takeoff", "landing">> ELSE <<>>)
      \o (IF ContainsAny(low, {<<"t","a","x","i","w","a","y">>, <<"t","a","x","i">>, <<"g","r","o","u","n","d">>}) THEN <<"taxi">> ELSE <<>>)
      \o (IF ContainsAny(low, {<<"a","p","p","r","o","a","c","h">>, <<"i","l","s">>, <<"v","o","r">>}) THEN <<"approach">> ELSE <<>>)
      \o (IF ContainsAny(low, {<<"a","i","r","s","p","a","c","e">>, <<"n","a","v","i","g","a","t","i","o","n">>, <<"e","n","-","r","o","u","t","e">>})
          THEN <<"en-route">> ELSE <<>>)]

_analyze_impact(text) == Impact(Lower(text))

(* ---- _clean_description ---- *)
\* str.strip()
LeadingBlanks(s) == RunLen(s, 1, Space, -1)
TrailingBlanks(s) == Min({n \in 0..Len(s) : n = Len(s) \/ s[Len(s) - n] \notin SpaceSet})
Strip(s) == SubSeq(s, 1 + LeadingBlanks(s), Len(s) - TrailingBlanks(s))
\* re.sub(r'\s+', ' ', s): every run of whitespace becomes one blank
Blanked(s, kept) == [j \in 1..Len(kept) |-> IF s[kept[j]] \in SpaceSet THEN " " ELSE s[kept[j]]]
CollapseSpace(s) ==
    LET RunStart(i) == s[i] \notin SpaceSet \/ i = 1 \/ s[i - 1] \notin SpaceSet
    IN  Blanked(s, SelectSeq([i \in 1..Len(s) |-> i], RunStart))
\* ^NOTAM\s+[A-Z]\d+/\d+\s*  with re.IGNORECASE: matched on the uppercased text
notam_header == Pat(<<Bol, Lit(<<"N","O","T","A","M">>), Plus(Space), One(Upcase), Plus(Digit), Lit(<<"/">>), Plus(Digit), Star(Space)>>)

\* re.sub of the header at the start of the text
WithoutHeader(cleaned, m) == IF m.found THEN SubSeq(cleaned, m.stop, Len(cleaned)) ELSE cleaned
\* the limit of 300 characters
Truncated(cleaned) == IF Len(cleaned) > 300 THEN SubSeq(cleaned, 1, 300) \o <<".",".",".">> ELSE cleaned
Cleaned(collapsed) ==
    Truncated(WithoutHeader(collapsed, ReSearch(notam_header, Upper(collapsed))))

_clean_description(text) == Cleaned(CollapseSpace(Strip(text)))

(* ---- _extract_keywords ---- *)
aviation_terms ==
    << <<"r","u","n","w","a","y">>, <<"t","a","x","i","w","a","y">>, <<"a","p","p","r","o","a","c","h">>, <<"i","l","s">>, <<"v","o","r">>, <<"n","d","b">>, <<"d","m","e">>,
       <<"c","l","o","s","e","d">>, <<"r","e","s","t","r","i","c","t","e","d">>, <<"u","n","a","v","a","i","l","a","b","l","e">>, <<"m","a","i","n","t","e","n","a","n","c","e">>, <<"c","o","n","s","t","r","u","c","t","i","o","n">>,
       <<"l","i","g","h","t","i","n","g">>, <<"f","u","e","l">>, <<"f","r","e","q","u","e","n","c","y">>, <<"n","a","v","a","i","d">>, <<"o","b","s","t","a","c","l","e">>, <<"c","r","a","n","e">> >>

\* rwy\s*(\d{2}[lrcLRC]?)
rwy_pattern ==
    Pat1(<<Lit(<<"r","w","y">>), Star(Space), Rep(Digit, 2, 2), Opt(Cls({"l", "r", "c", "L", "R", "C"}))>>, 3, 4)
\* twy\s*([A-Z]\d?), applied to the lower-cased text as the code applies it
twy_pattern == Pat1(<<Lit(<<"t","w","y">>), Star(Space), One(Upcase), Opt(Digit)>>, 3, 4)

\* re.findall for a pattern with one group, as the set of its results
FindAll(re, text, found) == {GroupChars(re, text, found[i], 1) : i \in 1..Len(found)}
\* f"runway_{rwy}" for each identifier
Identified(prefix, ids) == {prefix \o id : id \in ids}

\* list(set(keywords)): the order of the list is that of a set of strings,
\* so the result is kept as a set
KeywordsOf(text_lower) ==
    {aviation_terms[i] : i \in {j \in 1..Len(aviation_terms) : Contains(text_lower, aviation_terms[j])}}
      \cup Identified(<<"r","u","n","w","a","y","_">>, FindAll(rwy_pattern, text_lower, FindIter(rwy_pattern, text_lower)))
      \cup Identified(<<"t","a","x","i","w","a","y","_">>, FindAll(twy_pattern, text_lower, FindIter(twy_pattern, text_lower)))
_extract_keywords(text) == KeywordsOf(Lower(text))

(* ---- _extract_facilities ---- *)
\* [lrcLRC]
Side == Cls({"l", "r", "c", "L", "R", "C"})
\* <marker>\s*(\d{2}[lrcLRC]?)
RunwayAfter(marker) == Pat1(<<Lit(marker), Star(Space), Rep(Digit, 2, 2), Opt(Side)>>, 3, 4)
\* <marker>\s*rwy\s*(\d{2}[lrcLRC]?)
ApproachTo(marker) ==
    Pat1(<<Lit(marker), Star(Space), Lit(<<"r","w","y">>), Star(Space), Rep(Digit, 2, 2), Opt(Side)>>, 5, 6)
\* <marker>\s*([A-Z]\d?)
TaxiwayAfter(marker) == Pat1(<<Lit(marker), Star(Space), One(Upcase), Opt(Digit)>>, 3, 4)
\* <marker>\s*([A-Z]{3})
StationAfter(marker) == Pat1(<<Lit(marker), Star(Space), Rep(Upcase, 3, 3)>>, 3, 3)
\* <marker>\s*(\d{3}\.\d{2,3})
FrequencyAfter(marker) ==
    Pat1(<<Lit(marker), Star(Space), Rep(Digit, 3, 3), Lit(<<".">>), Rep(Digit, 2, 3)>>, 3, 5)
\* (\d{2}[lrcLRC]?)(?:\s*(?:left|right|center|centre))?
bare_runway ==
    Pat1(<<Rep(Digit, 2, 2), Opt(Side),
           OptWords(<<<<"l","e","f","t">>, <<"r","i","g","h","t">>, <<"c","e","n","t","e","r">>, <<"c","e","n","t","r","e">>>>)>>, 1, 2)

\* self.facility_patterns, in the order of the dictionary
facility_patterns ==
    <<[type |-> "runway",
       patterns |-> <<RunwayAfter(<<"r","w","y">>), RunwayAfter(<<"r","u","n","w","a","y">>), bare_runway>>],
      [type |-> "taxiway",
       patterns |-> <<TaxiwayAfter(<<"t","w","y">>), TaxiwayAfter(<<"t","a","x","i","w","a","y">>),
                      Pat1(<<Lit(<<"t","a","x","i">>), DotStar, One(Upcase), Opt(Digit)>>, 3, 4)>>],
      [type |-> "approach",
       patterns |-> <<ApproachTo(<<"i","l","s">>), ApproachTo(<<"v","o","r">>), ApproachTo(<<"r","n","a","v">>),
                      ApproachTo(<<"a","p","p">>)>>],
      [type |-> "navaid",
       patterns |-> <<StationAfter(<<"v","o","r">>), StationAfter(<<"v","o","r","t","a","c">>), StationAfter(<<"n","d","b">>),
                      StationAfter(<<"d","m","e">>)>>],
      [type |-> "frequency",
       patterns |-> <<FrequencyAfter(<<"f","r","e","q">>), FrequencyAfter(<<"f","r","e","q","u","e","n","c","y">>),
                      Pat1(<<Rep(Digit, 3, 3), Lit(<<".">>), Rep(Digit, 2, 3), Star(Space),
                             Lit(<<"m","h","z">>)>>, 1, 3)>>]>>

\* text[max(0, match.start()-20):match.end()+20].strip()
Context(text, m) == Strip(SubSeq(text, Max({1, m.start - 20}), Min({Len(text), m.stop + 19})))
\* the dictionary appended for one match; the identifier is cut from the
\* lower-cased text the pattern was applied to, the context from the text
Facility(type, re, text, low, m) ==
    [type |-> type,
     identifier |-> Str(GroupChars(re, low, m, 1)),
     context |-> Str(Context(text, m))]
\* 'for match in matches'
Matched(type, re, text, low, found) ==
    [i \in 1..Len(found) |-> Facility(type, re, text, low, found[i])]
\* 'for pattern in patterns', from pattern k on; low is text.lower()
RECURSIVE PatternHits(_, _, _, _, _)
PatternHits(type, patterns, text, low, k) ==
    IF k > Len(patterns) THEN <<>>
    ELSE Matched(type, patterns[k], text, low, FindIter(patterns[k], low))
             \o PatternHits(type, patterns, text, low, k + 1)
\* 'for facility_type, patterns in self.facility_patterns.items()', from type k on
RECURSIVE TypeHits(_, _, _)
TypeHits(text, low, k) ==
    IF k > Len(facility_patterns) THEN <<>>
    ELSE PatternHits(facility_patterns[k].type, facility_patterns[k].patterns, text, low, 1)
             \o TypeHits(text, low, k + 1)
_extract_facilities(text) == TypeHits(text, Lower(text), 1)

(* ---- _assess_flight_impact ---- *)
FlightImpact(category, is_high, is_medium) ==
    [overall_impact |-> IF is_high THEN "high" ELSE IF is_medium THEN "medium" ELSE "low",
     affected_operations |->
         CASE category = "runway" -> <<"takeoff", "landing">>
           [] category = "taxiway" -> <<"ground_operations">>
           [] category = "approach" -> <<"approach", "landing">>
           [] category = "navigation" -> <<"navigation">>
           [] OTHER -> <<>>,
     pilot_action_required |-> is_high \/ is_medium,
     alternate_procedures |-> is_medium,
     go_no_go_factor |-> is_high]

\* the 'if' and the 'elif' of the impact level
IsHighImpact(parsed_notam) ==
    \/ parsed_notam.severity = "high"
    \/ parsed_notam.category \in {"runway", "approach"}
    \/ Contains(Lower(parsed_notam.description.s), <<"c","l","o","s","e","d">>)
\* variant: the severity is not read by the 'elif'
IsMediumImpactByCategory(parsed_notam) ==
    /\ ~IsHighImpact(parsed_notam)
    /\ \/ parsed_notam.category \in {"taxiway", "navigation", "lighting"}
       \/ parsed_notam.impact.severity_score >= 3
IsMediumImpact(parsed_notam) ==
    /\ ~IsHighImpact(parsed_notam)
    /\ \/ parsed_notam.severity = "medium"
       \/ parsed_notam.category \in {"taxiway", "navigation", "lighting"}
       \/ parsed_notam.impact.severity_score >= 3

_assess_flight_impact(parsed_notam) ==
    FlightImpact(parsed_notam.category, IsHighImpact(parsed_notam), IsMediumImpact(parsed_notam))

(* ---- parse ---- *)
\* Python values a caller can pass as notam_text
IntValue(n) == [kind |-> "int", val |-> n]
ListValue(n) == [kind |-> "list", len |-> n]
BytesValue(n) == [kind |-> "bytes", len |-> n]

\* len(v) raises TypeError for None and for an int
HasLen(v) == v.kind \in {"str", "list", "bytes"}
LenOf(v) == IF v.kind = "str" THEN Len(v.s) ELSE v.len
\* 'not v'
Falsy(v) ==
    CASE v.kind = "none" -> TRUE
      [] v.kind = "int" -> v.val = 0
      [] OTHER -> LenOf(v) = 0

\* the exception the try block of parse ends with for an input that is not a
\* str: None and 0 pass 'if not text' and fail at text.upper() in
\* _extract_notam_id, an int or a list has no upper(), and re.search refuses
\* a str pattern on bytes
NonTextFailure(v) == IF v.kind = "bytes" THEN "TypeError" ELSE "AttributeError"

\* notam_text[:n] + '...' if len(notam_text) > n else notam_text
\* (raises TypeError when len() is undefined or the slice is not a str)
Abbreviate(v, n) ==
    IF ~HasLen(v) THEN Raised("TypeError")
    ELSE IF LenOf(v) > n
         THEN (IF v.kind = "str" THEN Returned(Str(SubSeq(v.s, 1, n) \o <<".",".",".">>))
               ELSE Raised("TypeError"))
         ELSE Returned(v)

\* the except branch of parse
FailureRecord(notam_text, exc, now, description) ==
    IF description.raised THEN description
    ELSE Returned([raw_text |-> notam_text,
                   error |-> exc,
                   parsed_at |-> now,
                   severity |-> "unknown",
                   category |-> "unknown",
                   description |-> description.value])
ParseFailure(notam_text, exc, now) ==
    FailureRecord(notam_text, exc, now, Abbreviate(notam_text, 200))

\* 'if not airport_code and extracted_airport'
AirportCode(airport_code, extracted_airport) ==
    IF Falsy(airport_code) /\ ~Falsy(extracted_airport) THEN extracted_airport ELSE airport_code

\* the dictionary literal of the try block, with the two effective_* keys
\* copied from time_info
ParsedFields(notam_text, text, code, time_info, altitudes, now) ==
    [raw_text |-> notam_text,
     airport_code |-> code,
     airport |-> code,
     parsed_at |-> now,
     notam_id |-> _extract_notam_id(text),
     severity |-> _classify_severity(text),
     category |-> _determine_category(text),
     type |-> _determine_category(text),
     affected_facilities |-> _extract_facilities(text),
     time_info |-> time_info,
     impact |-> _analyze_impact(text),
     description |-> Str(_clean_description(text)),
     coordinates |-> _extract_coordinates(text),
     keywords |-> _extract_keywords(text),
     altitudes |-> altitudes,
     effective_from |-> time_info.effective_from,
     effective_until |-> time_info.effective_until]

\* parsed['flight_impact'] = self._assess_flight_impact(parsed)
WithFlightImpact(fields) ==
    [f \in DOMAIN fields \cup {"flight_impact"} |->
        IF f = "flight_impact" THEN _assess_flight_impact(fields) ELSE fields[f]]

\* the try block on a str; _extract_altitudes is the step that can raise
ParseText(notam_text, airport_code, now, altitudes) ==
    IF altitudes.raised THEN ParseFailure(notam_text, altitudes.exc, now)
    ELSE Returned(WithFlightImpact(
             ParsedFields(notam_text, notam_text.s,
                          AirportCode(airport_code, _extract_airport_code(notam_text.s)),
                          _extract_time_information(notam_text.s), altitudes.value, now)))

parse(notam_text, airport_code, now) ==
    IF notam_text.kind # "str" THEN ParseFailure(notam_text, NonTextFailure(notam_text), now)
    ELSE ParseText(notam_text, airport_code, now, _extract_altitudes(notam_text.s))

HasError(outcome) == ~outcome.raised /\ "error" \in DOMAIN outcome.value

(* ---- parse_multiple ---- *)
\* the except branch of the loop body
ErrorEntry(i, exc, raw) ==
    IF raw.raised THEN raw
    ELSE Returned([sequence_number |-> i, error |-> exc, raw_text |-> raw.value])

\* the entry appended for an input from the outcome of its parse call
Numbered(notam_text, i, parsed) ==
    IF ~parsed.raised
    THEN Returned([f \in DOMAIN parsed.value \cup {"sequence_number"} |->
                      IF f = "sequence_number" THEN i ELSE parsed.value[f]])
    ELSE ErrorEntry(i, parsed.exc, Abbreviate(notam_text, 100))

\* one loop iteration: the entry appended for notam_texts[i], or the exception
\* that leaves the except branch of the loop body
ParseEntry(notam_text, i, now) == Numbered(notam_text, i, parse(notam_text, None, now))

Prepend(entry, rest) == IF rest.raised THEN rest ELSE Returned(<<entry.value>> \o rest.value)

\* the loop stops at the first entry whose handling raises
RECURSIVE ParseFrom(_, _, _)
Continue(notam_texts, i, now, entry) ==
    IF entry.raised THEN entry ELSE Prepend(entry, ParseFrom(notam_texts, i + 1, now))
ParseFrom(notam_texts, i, now) ==
    IF i > Len(notam_texts) THEN Returned(<<>>)
    ELSE Continue(notam_texts, i, now, ParseEntry(notam_texts[i], i, now))

parse_multiple(notam_texts, now) == ParseFrom(notam_texts, 1, now)

(* ---- get_summary_statistics ---- *)
\* most_common(10)
KeywordLimit == 10

\* dict.get(key, default)
Get(record, key, default) == IF key \in DOMAIN record THEN record[key] ELSE default

\* the records the loop does not skip
Counted(parsed_notams) == {i \in 1..Len(parsed_notams) : "error" \notin DOMAIN parsed_notams[i]}

severity_keys == {"high", "medium", "low", "unknown"}
SeverityOf(notam) == Get(notam, "severity", "unknown")
CategoryOf(notam) == Get(notam, "category", "other")
ImpactOf(notam) == Get(notam, "flight_impact", << >>)
KeywordsIn(notam) == Get(notam, "keywords", {})

\* Counter(all_keywords): the keywords of the counted records and the number
\* of occurrences of a keyword
AllKeywords(parsed_notams, counted) == UNION {KeywordsIn(parsed_notams[i]) : i \in counted}
KeywordCount(parsed_notams, counted, k) ==
    Cardinality({i \in counted : k \in KeywordsIn(parsed_notams[i])})
\* position of the first record that inserts the keyword into the counter
FirstSeen(parsed_notams, counted, k) == Min({i \in counted : k \in KeywordsIn(parsed_notams[i])})

\* most_common sorts by count, equal counts in insertion order: k comes
\* before j in every run
Precedes(parsed_notams, counted, k, j) ==
    \/ KeywordCount(parsed_notams, counted, k) > KeywordCount(parsed_notams, counted, j)
    \/ /\ KeywordCount(parsed_notams, counted, k) = KeywordCount(parsed_notams, counted, j)
       /\ FirstSeen(parsed_notams, counted, k) < FirstSeen(parsed_notams, counted, j)
Ahead(parsed_notams, counted, keys, k) == {j \in keys : Precedes(parsed_notams, counted, j, k)}
Behind(parsed_notams, counted, keys, k) == {j \in keys : Precedes(parsed_notams, counted, k, j)}

\* keywords among the first ten whatever the order inside one record's list
Sure(parsed_notams, counted, keys) ==
    {k \in keys : Cardinality(keys) - Cardinality(Behind(parsed_notams, counted, keys, k)) <= KeywordLimit}
\* keywords whose place among the first ten depends on that order
Tied(parsed_notams, counted, keys) ==
    {k \in keys : /\ Cardinality(Ahead(parsed_notams, counted, keys, k)) < KeywordLimit
                  /\ Cardinality(keys) - Cardinality(Behind(parsed_notams, counted, keys, k)) > KeywordLimit}

\* the key sets most_common(10) can return: the order of list(set(...)) in
\* _extract_keywords decides between keywords of equal count and first record
Selections(sure, tied) ==
    {sure \cup x : x \in {y \in SUBSET tied : Cardinality(y) = KeywordLimit - Cardinality(sure)}}
MostCommon(parsed_notams, counted, keys) ==
    IF Cardinality(keys) <= KeywordLimit THEN {keys}
    ELSE Selections(Sure(parsed_notams, counted, keys), Tied(parsed_notams, counted, keys))

\* the stats dictionary after the loop, for one choice of the ten keywords
Statistics(parsed_notams, counted, top) ==
    [total_notams |-> Len(parsed_notams),
     by_severity |-> [s \in severity_keys |->
                        Cardinality({i \in counted : SeverityOf(parsed_notams[i]) = s})],
     by_category |-> [c \in {CategoryOf(parsed_notams[i]) : i \in counted} |->
                        Cardinality({i \in counted : CategoryOf(parsed_notams[i]) = c})],
     high_impact_count |->
         Cardinality({i \in counted : Get(ImpactOf(parsed_notams[i]), "overall_impact", "") = "high"}),
     go_no_go_factors |->
         Cardinality({i \in counted : Get(ImpactOf(parsed_notams[i]), "go_no_go_factor", FALSE)}),
     airports_affected |->
         {parsed_notams[i].airport_code :
             i \in {j \in counted : ~Falsy(Get(parsed_notams[j], "airport_code", None))}},
     most_common_keywords |-> [k \in top |-> KeywordCount(parsed_notams, counted, k)]]

\* stats['by_severity'][severity] += 1 raises KeyError for any other severity
Tallied(parsed_notams, counted, top) ==
    IF \E i \in counted : SeverityOf(parsed_notams[i]) \notin severity_keys THEN Raised("KeyError")
    ELSE Returned(Statistics(parsed_notams, counted, top))

\* the results get_summary_statistics can return for a list
get_summary_statistics(parsed_notams) ==
    IF Len(parsed_notams) = 0 THEN {Returned([total |-> 0, error |-> "No NOTAMs provided"])}
    ELSE {Tallied(parsed_notams, Counted(parsed_notams), top) :
             top \in MostCommon(parsed_notams, Counted(parsed_notams),
                                AllKeywords(parsed_notams, Counted(parsed_notams)))}

(* ---- parse on a shared instance ---- *)
\* the attributes __init__ assigns and the parse steps read
PatternTables ==
    [severity_patterns |-> severity_patterns,
     time_patterns |-> time_patterns,
     impact_patterns |-> impact_patterns]

\* _classify_severity reading self.severity_patterns
SeverityFrom(self, text) ==
    HighestTier([tier \in {"high", "medium", "low"} |->
                    CountMatches(self.severity_patterns[tier], Lower(text))])

\* _analyze_impact reading self.impact_patterns: the type is that of the
\* first entry with a matching pattern
TypeFrom(self, i) == IF i = 0 THEN "unknown" ELSE self.impact_patterns[i].type
ImpactFrom(self, text) ==
    [Impact(Lower(text)) EXCEPT
        !.type = TypeFrom(self, FirstOr0({i \in 1..Len(self.impact_patterns) :
                                            AnyMatch(self.impact_patterns[i].patterns, Lower(text))}))]

\* the record parse returns once the dictionary literal is evaluated, with
\* the severity and the impact the thread read from the tables; the except
\* branch returns the failure record
Completed(outcome, severity, impact) ==
    IF HasError(outcome) THEN outcome
    ELSE Returned(WithFlightImpact(
             [f \in DOMAIN outcome.value \ {"flight_impact"} |->
                 IF f = "severity" THEN severity
                 ELSE IF f = "impact" THEN impact
                 ELSE outcome.value[f]]))

(* ================ nlp/summary_model.py: WeatherSummarizer ============== *)

(* ---- flight category of _enhanced_pilot_metar_summary ---- *)
\* (\d+)SM|(\d{4})
vis_pattern ==
    << Alt(<<Plus(Digit), Lit(<<"S","M">>)>>, <<<<1, 1>>, <<0, 0>>>>),
       Alt(<<Rep(Digit, 4, 4)>>, <<<<0, 0>>, <<1, 1>>>>) >>
\* (BKN|OVC)(\d{3})
ceiling_pattern ==
    << Alt(<<Lit(<<"B","K","N">>), Rep(Digit, 3, 3)>>, <<<<1, 1>>, <<2, 2>>>>),
       Alt(<<Lit(<<"O","V","C">>), Rep(Digit, 3, 3)>>, <<<<1, 1>>, <<2, 2>>>>) >>

\* a visibility in statute miles is the fraction num/den (metres / 1609)
MetresPerMile == 1609
Miles(n) == [num |-> n, den |-> 1]
FromMetres(n) == [num |-> n, den |-> MetresPerMile]
\* v >= k for a fraction v
AtLeast(v, k) == v.num >= k * v.den

\* the visibility the summary extracts, None when no token is found
Visibility(metar_upper, vis_match) ==
    IF ~vis_match.found THEN None
    ELSE IF Group(vis_pattern, metar_upper, vis_match, 1) # None
         THEN Miles(ToInt(GroupChars(vis_pattern, metar_upper, vis_match, 1)))
         ELSE FromMetres(ToInt(GroupChars(vis_pattern, metar_upper, vis_match, 2)))
ExtractVisibility(metar_upper) == Visibility(metar_upper, ReSearch(vis_pattern, metar_upper))

\* the ceiling in feet, None when no broken or overcast layer is found
Feet(n) == [feet |-> n]
Ceiling(metar_upper, ceiling_match) ==
    IF ~ceiling_match.found THEN None
    ELSE Feet(ToInt(GroupChars(ceiling_pattern, metar_upper, ceiling_match, 2)) * 100)
ExtractCeiling(metar_upper) == Ceiling(metar_upper, ReSearch(ceiling_pattern, metar_upper))

\* 'if visibility and ceiling': None and zero are both false
ClassifyFlightCategory(visibility, ceiling) ==
    IF visibility # None /\ visibility.num # 0 /\ ceiling # None /\ ceiling.feet # 0
    THEN IF AtLeast(visibility, 5) /\ ceiling.feet >= 3000 THEN "VFR"
         ELSE IF AtLeast(visibility, 3) /\ ceiling.feet >= 1000 THEN "MVFR"
         ELSE IF AtLeast(visibility, 1) /\ ceiling.feet >= 500 THEN "IFR"
         ELSE "LIFR"
    ELSE "Unknown"

\* the flight-category part of the summary: the category and the two
\* readings it is derived from
FlightCategory(visibility, ceiling) ==
    [flight_category |-> ClassifyFlightCategory(visibility, ceiling),
     visibility |-> visibility,
     ceiling |-> ceiling]

(* ---- categorize_weather_conditions ---- *)
\* (BKN|OVC)00[0-2]
very_low_ceiling ==
    << Alt(<<Lit(<<"B","K","N","0","0">>), One(Cls({"0", "1", "2"}))>>, <<<<1, 1>>>>),
       Alt(<<Lit(<<"O","V","C","0","0">>), One(Cls({"0", "1", "2"}))>>, <<<<1, 1>>>>) >>
\* (BKN|OVC)00[3-9]|010|015|020
low_ceiling ==
    << Alt(<<Lit(<<"B","K","N","0","0">>), One(Cls({"3", "4", "5", "6", "7", "8", "9"}))>>, <<<<1, 1>>>>),
       Alt(<<Lit(<<"O","V","C","0","0">>), One(Cls({"3", "4", "5", "6", "7", "8", "9"}))>>, <<<<1, 1>>>>),
       Alt(<<Lit(<<"0","1","0">>)>>, <<<<0, 0>>>>),
       Alt(<<Lit(<<"0","1","5">>)>>, <<<<0, 0>>>>),
       Alt(<<Lit(<<"0","2","0">>)>>, <<<<0, 0>>>>) >>
\* (\d{3})(\d{2})KT
steady_wind == <<Alt(<<Rep(Digit, 3, 3), Rep(Digit, 2, 2), Lit(<<"K","T">>)>>, <<<<1, 1>>, <<2, 2>>>>)>>

\* one checklist line: the condition and its paired rationale
Finding(condition, factor) == [condition |-> condition, factor |-> factor]
When(test, condition, factor) == IF test THEN <<Finding(condition, factor)>> ELSE <<>>

\* the severe checklist, in the order of the source
SevereFindings(metar_upper) ==
       When(Contains(metar_upper, <<"T","S">>),
            "Thunderstorms present", "Electrical activity and severe turbulence risk")
    \o When(ContainsAny(metar_upper, {<<"G","3","0">>, <<"G","3","5">>, <<"G","4","0">>, <<"G","4","5">>}),
            "Strong gusting winds (30+ knots)", "Severe wind gusts affecting aircraft control")
    \o When(ContainsAny(metar_upper, {<<"0","S","M">>, <<"M","1","/","4","S","M">>, <<"1","/","4","S","M">>, <<"1","/","2","S","M">>}),
            "Extremely low visibility (< 1 mile)",
            "Visibility below safe minimums for most operations")
    \o When(Matches(very_low_ceiling, metar_upper),
            "Extremely low ceiling (< 500 feet)", "Ceiling below approach minimums")
    \o When(ContainsAny(metar_upper, {<<"F","Z","R","A">>, <<"F","Z","D","Z">>, <<"F","Z","F","G">>}),
            "Freezing precipitation", "Severe aircraft icing conditions")
    \o When(ContainsAny(metar_upper, {<<"+","R","A">>, <<"+","S","N">>, <<"+","S","H","S","N">>, <<"+","T","S","R","A">>}),
            "Heavy precipitation", "Reduced visibility and aircraft performance impact")
    \o When(Contains(metar_upper, <<"I","C","E">>) \/ Contains(metar_upper, <<"F","Z","F","G">>),
            "Severe icing conditions", "Critical aircraft icing hazard")

\* the steady-wind line of the significant checklist
SteadyWind(wind_speed) ==
    IF wind_speed >= 15
    THEN <<Finding("Strong winds (" \o ToString(wind_speed) \o " knots)",
                   "Challenging crosswind conditions")>>
    ELSE <<>>
WindFinding(metar_upper, wind_match) ==
    IF wind_match.found
    THEN SteadyWind(ToInt(GroupChars(steady_wind, metar_upper, wind_match, 2)))
    ELSE <<>>

\* the significant checklist, in the order of the source
SignificantFindings(metar_upper) ==
       When(ContainsAny(metar_upper, {<<"G","2","0">>, <<"G","2","5">>}),
            "Moderate wind gusts (20-29 knots)", "Increased difficulty in aircraft handling")
    \o When(ContainsAny(metar_upper, {<<"1","S","M">>, <<"2","S","M">>, <<"3","S","M">>}),
            "Reduced visibility (1-3 miles)", "IFR conditions requiring instrument approach")
    \o When(Matches(low_ceiling, metar_upper),
            "Low ceiling (500-2000 feet)", "Restricted VFR operations")
    \o When(/\ ContainsAny(metar_upper, {<<"R","A">>, <<"S","N">>, <<"D","Z">>, <<"S","H">>})
            /\ ~ContainsAny(metar_upper, {<<"+","R","A">>, <<"+","S","N">>, <<"+","D","Z">>}),
            "Light to moderate precipitation", "Potential visibility reduction")
    \o When(ContainsAny(metar_upper, {<<"B","R">>, <<"F","G">>, <<"H","Z">>}),
            "Visibility restrictions (mist/fog/haze)", "Reduced visibility conditions")
    \o WindFinding(metar_upper, ReSearch(steady_wind, metar_upper))

\* variant: the significant checklist is evaluated whatever the severe one found
SignificantChecklistAlways(severe, metar_upper) == SignificantFindings(metar_upper)

\* 'if not severe_conditions:' guards the whole significant checklist
SignificantChecklist(severe, metar_upper) ==
    IF Len(severe) = 0 THEN SignificantFindings(metar_upper) ELSE <<>>

Conditions(findings) == [i \in 1..Len(findings) |-> findings[i].condition]
\* variant: each rationale is put in front of the earlier ones
FactorsNewestFirst(findings) == [i \in 1..Len(findings) |-> findings[Len(findings) + 1 - i].factor]
Factors(findings) == [i \in 1..Len(findings) |-> findings[i].factor]

\* the result built from the two lists of findings
Categorized(metar_text, severe, significant) ==
    [category |-> IF Len(severe) > 0 THEN "Severe"
                  ELSE IF Len(significant) > 0 THEN "Significant"
                  ELSE "Clear",
     explanation |->
         IF Len(severe) > 0
         THEN [lead |-> "SEVERE weather conditions present",
               conditions |-> Conditions(severe),
               reasons |-> Factors(severe) \o Factors(significant)]
         ELSE IF Len(significant) > 0
         THEN [lead |-> "SIGNIFICANT weather conditions present",
               conditions |-> Conditions(significant),
               reasons |-> Factors(severe) \o Factors(significant)]
         ELSE [lead |-> "CLEAR weather conditions", conditions |-> <<>>, reasons |-> <<>>],
     flight_impact |-> IF Len(severe) > 0 THEN "Critical"
                       ELSE IF Len(significant) > 0 THEN "Moderate"
                       ELSE "Minimal",
     severity_factors |-> Factors(severe) \o Factors(significant),
     conditions_present |-> Conditions(severe) \o Conditions(significant),
     raw_metar |-> metar_text]

\* variant: the significant checklist is never evaluated
CheckedSevereOnly(metar_text, metar_upper, severe) == Categorized(metar_text, severe, <<>>)

\* the two checklists on the uppercased text
Checked(metar_text, metar_upper, severe) ==
    Categorized(metar_text, severe, SignificantChecklist(severe, metar_upper))

\* metar_text.upper() raises for a value that is not a str: the except branch
categorize_weather_conditions(metar_text) ==
    IF metar_text.kind # "str"
    THEN [category |-> "Unknown",
          explanation |-> [lead |-> "Weather categorization failed", conditions |-> <<>>,
                           reasons |-> <<>>],
          flight_impact |-> "Unknown",
          severity_factors |-> <<"Processing error">>,
          conditions_present |-> <<>>,
          raw_metar |-> metar_text]
    ELSE Checked(metar_text, Upper(metar_text.s), SevereFindings(Upper(metar_text.s)))

(* ---- text assembly ---- *)
\* characters outside ASCII are written by the name of their code point,
\* one sequence element per code point
Degree == "U+00B0"
Bullet == "U+2022"
CrossMark == "U+274C"
WarningSign == <<"U+26A0", "U+FE0F">>
Clipboard == <<"U+1F4CB">>

\* sep.join(parts)
RECURSIVE JoinFrom(_, _, _)
JoinFrom(sep, parts, i) ==
    IF i > Len(parts) THEN <<>>
    ELSE IF i = Len(parts) THEN parts[i]
    ELSE parts[i] \o sep \o JoinFrom(sep, parts, i + 1)
Join(sep, parts) == JoinFrom(sep, parts, 1)

\* str(n) of an integer
RECURSIVE DecStr(_)
DecStr(n) ==
    IF n < 0 THEN <<"-">> \o DecStr(0 - n)
    ELSE IF n < 10 THEN <<DigitChars[n + 1]>>
    ELSE DecStr(n \div 10) \o <<DigitChars[(n % 10) + 1]>>

\* one summary point when the test holds
Point(test, phrase) == IF test THEN <<phrase>> ELSE <<>>

\* the descriptions of the codes of a table found in the text, in table order
RECURSIVE Described(_, _, _)
Described(table, text_upper, i) ==
    IF i > Len(table) THEN <<>>
    ELSE Point(Contains(text_upper, table[i][1]), table[i][2]) \o Described(table, text_upper, i + 1)

(* ---- _fallback_summary ---- *)
weather_phenomena ==
    << <<<<"R","A">>, <<"r","a","i","n">>>>, <<<<"S","N">>, <<"s","n","o","w">>>>, <<<<"F","G">>, <<"f","o","g">>>>,
       <<<<"T","S">>, <<"t","h","u","n","d","e","r","s","t","o","r","m","s">>>>, <<<<"B","R">>, <<"m","i","s","t">>>>,
       <<<<"D","Z">>, <<"d","r","i","z","z","l","e">>>>, <<<<"F","Z">>, <<"f","r","e","e","z","i","n","g"," ","c","o","n","d","i","t","i","o","n","s">>>>,
       <<<<"V","C">>, <<"i","n"," ","t","h","e"," ","v","i","c","i","n","i","t","y">>>>, <<<<"S","H">>, <<"s","h","o","w","e","r","s">>>>,
       <<<<"D","R">>, <<"d","r","i","f","t","i","n","g">>>>, <<<<"B","L">>, <<"b","l","o","w","i","n","g">>>>, <<<<"S","Q">>, <<"s","q","u","a","l","l","s">>>>,
       <<<<"P","O">>, <<"d","u","s","t","/","s","a","n","d"," ","w","h","i","r","l","s">>>>, <<<<"S","S">>, <<"s","a","n","d","s","t","o","r","m">>>>,
       <<<<"D","S">>, <<"d","u","s","t","s","t","o","r","m">>>>, <<<<"G","R">>, <<"h","a","i","l">>>>, <<<<"G","S">>, <<"s","m","a","l","l"," ","h","a","i","l","/","s","n","o","w"," ","p","e","l","l","e","t","s">>>>,
       <<<<"U","P">>, <<"u","n","k","n","o","w","n"," ","p","r","e","c","i","p","i","t","a","t","i","o","n">>>>, <<<<"V","A">>, <<"v","o","l","c","a","n","i","c"," ","a","s","h">>>> >>

\* (\d{3})(\d{2})(?:G(\d{2}))?KT : the optional gust is tried first (greedy)
wind_pattern ==
    << Alt(<<Rep(Digit, 3, 3), Rep(Digit, 2, 2), Lit(<<"G">>), Rep(Digit, 2, 2), Lit(<<"K","T">>)>>,
           <<<<1, 1>>, <<2, 2>>, <<4, 4>>>>),
       Alt(<<Rep(Digit, 3, 3), Rep(Digit, 2, 2), Lit(<<"K","T">>)>>, <<<<1, 1>>, <<2, 2>>, <<0, 0>>>>) >>
\* (M?\d{2})/(M?\d{2})
temp_pattern ==
    << Alt(<<Opt(Cls({"M"})), Rep(Digit, 2, 2), Lit(<<"/">>), Opt(Cls({"M"})), Rep(Digit, 2, 2)>>,
           <<<<1, 2>>, <<4, 5>>>>) >>

\* the VFR / IFR / MVFR point: the first vocabulary with a token in the text
ConditionPoint(text_upper) ==
    IF ContainsAny(text_upper, {<<"1","0","S","M">>, <<"P","6","S","M">>, <<"9","9","9","9">>, <<"C","L","R">>, <<"S","K","C">>, <<"F","E","W">>})
    THEN <<<<"V","F","R"," ","c","o","n","d","i","t","i","o","n","s">>>>
    ELSE IF ContainsAny(text_upper, {<<"O","V","C">>, <<"1","S","M">>, <<"2","S","M">>, <<"1","/","2","S","M">>, <<"1","/","4","S","M">>, <<"0","S","M">>, <<"M","1","/","4","S","M">>})
    THEN <<<<"I","F","R"," ","c","o","n","d","i","t","i","o","n","s">>>>
    ELSE IF ContainsAny(text_upper, {<<"S","C","T">>, <<"B","K","N">>, <<"3","S","M">>, <<"4","S","M">>, <<"5","S","M">>, <<"6","S","M">>})
    THEN <<<<"M","V","F","R"," ","c","o","n","d","i","t","i","o","n","s">>>>
    ELSE <<>>

\* the strength point and the description of a wind group
WindPoints(direction, speed, gust) ==
       (IF speed > 20 \/ (gust # None /\ ToInt(gust.s) > 25) THEN <<<<"s","t","r","o","n","g"," ","w","i","n","d","s">>>>
        ELSE IF speed > 10 THEN <<<<"m","o","d","e","r","a","t","e"," ","w","i","n","d","s">>>>
        ELSE <<>>)
    \o << IF direction = <<"0","0","0">> THEN <<"C","a","l","m"," ","w","i","n","d","s">>
          ELSE <<"W","i","n","d"," ","f","r","o","m"," ">> \o direction \o <<Degree>> \o <<" ","a","t"," ">> \o DecStr(speed) \o <<" ","k","n","o","t","s">>
               \o (IF gust # None THEN <<","," ","g","u","s","t","i","n","g"," ","t","o"," ">> \o gust.s \o <<" ","k","n","o","t","s">> ELSE <<>>) >>
WindSummary(text, wind_match) ==
    IF wind_match.found
    THEN WindPoints(GroupChars(wind_pattern, text, wind_match, 1),
                    ToInt(GroupChars(wind_pattern, text, wind_match, 2)),
                    Group(wind_pattern, text, wind_match, 3))
    ELSE <<>>

\* int(temp_str.replace('M', '-')) as printed by an f-string
Celsius(temp_str) ==
    IF temp_str[1] = "M"
    THEN DecStr(0 - ToInt(SubSeq(temp_str, 2, Len(temp_str))))
    ELSE DecStr(ToInt(temp_str))
TempPoint(text_upper, temp_match) ==
    IF temp_match.found
    THEN <<<<"T","e","m","p"," ">> \o Celsius(GroupChars(temp_pattern, text_upper, temp_match, 1)) \o <<Degree, "C">>>>
    ELSE <<>>

SummaryPoints(text, text_upper) ==
       ConditionPoint(text_upper)
    \o Described(weather_phenomena, text_upper, 1)
    \o WindSummary(text, ReSearch(wind_pattern, text))
    \o TempPoint(text_upper, ReSearch(temp_pattern, text_upper))

\* duplicates removed, the first occurrence kept
RECURSIVE UniqueFrom(_, _)
UniqueFrom(points, i) ==
    IF i > Len(points) THEN <<>>
    ELSE Point(\A j \in 1..(i - 1) : points[j] # points[i], points[i]) \o UniqueFrom(points, i + 1)

Summarized(summary_points) ==
    IF Len(summary_points) > 0
    THEN <<"W","e","a","t","h","e","r",":"," ">> \o Join(<<","," ">>, UniqueFrom(summary_points, 1))
    ELSE <<"W","e","a","t","h","e","r"," ","c","o","n","d","i","t","i","o","n","s"," ","r","e","q","u","i","r","e"," ","p","i","l","o","t"," ","r","e","v","i","e","w">>

_fallback_summary(text) == Summarized(SummaryPoints(text, Upper(text)))

(* ---- summarize and the two backend calls ---- *)
\* what requests.post(...) and the response give the caller: an exception
\* (Timeout, ConnectionError, the HTTPError of raise_for_status, the
\* ValueError of response.json()), or a JSON body; items are the summaries
\* of the candidates of the body (the list itself for HuggingFace,
\* result['choices'] for Llama), None for a candidate without summary
Failure(exc) == [kind |-> "raise", exc |-> exc]
Body(items) == [kind |-> "json", items |-> items]

\* the value returned and the number of requests posted on the way
Answer(summary, posts) == [summary |-> summary, posts |-> posts]

\* the limit of the HuggingFace input
InputLimit == 1000
\* text[:1000] + "..." replaces text for the rest of _call_hf_summarizer
Clipped(text) ==
    IF Len(text) > InputLimit THEN SubSeq(text, 1, InputLimit) \o <<".",".",".">> ELSE text

\* the first candidate's summary when there is one and it is not empty,
\* the fallback summary of text otherwise (the except branches included)
Generated(text, reply) ==
    IF /\ reply.kind = "json"
       /\ Len(reply.items) > 0
       /\ reply.items[1] # None
       /\ Len(reply.items[1].s) > 0
    THEN reply.items[1].s
    ELSE _fallback_summary(text)

_call_hf_summarizer(api_key, text, reply) ==
    IF api_key = None THEN Answer(_fallback_summary(text), 0)
    ELSE Answer(Generated(Clipped(text), reply), 1)

_call_llama_summarizer(api_key, text, reply) ==
    IF api_key = None THEN Answer(_fallback_summary(text), 0)
    ELSE Answer(Generated(text, reply), 1)

summarize(provider, api_key, text, reply) ==
    IF provider = "huggingface" THEN _call_hf_summarizer(api_key, text, reply)
    ELSE IF provider = "llama" THEN _call_llama_summarizer(api_key, text, reply)
    ELSE Answer(_fallback_summary(text), 0)

(* ---- the lines of _enhanced_pilot_metar_summary ---- *)
\* METAR\s+([A-Z]{4})
station_pattern == Pat1(<<Lit(<<"M","E","T","A","R">>), Plus(Space), Rep(Upcase, 4, 4)>>, 3, 3)
\* (\d{6})Z
time_pattern == Pat1(<<Rep(Digit, 6, 6), Lit(<<"Z">>)>>, 1, 1)
\* A(\d{4})
pressure_pattern == Pat1(<<Lit(<<"A">>), Rep(Digit, 4, 4)>>, 2, 2)

weather_codes ==
    << <<<<"R","A">>, <<"R","a","i","n">>>>, <<<<"S","N">>, <<"S","n","o","w">>>>, <<<<"F","G">>, <<"F","o","g">>>>, <<<<"B","R">>, <<"M","i","s","t">>>>,
       <<<<"T","S">>, <<"T","h","u","n","d","e","r","s","t","o","r","m","s">>>>, <<<<"D","Z">>, <<"D","r","i","z","z","l","e">>>>, <<<<"S","H">>, <<"S","h","o","w","e","r","s">>>>,
       <<<<"F","Z">>, <<"F","r","e","e","z","i","n","g"," ","c","o","n","d","i","t","i","o","n","s">>>>, <<<<"B","L">>, <<"B","l","o","w","i","n","g">>>>, <<<<"G","R">>, <<"H","a","i","l">>>> >>

\* 1. station and time, only when both are found
StationLine(metar_upper, station_match, time_match) ==
    Point(station_match.found /\ time_match.found,
          <<"S","T","A","T","I","O","N",":"," ">> \o GroupChars(station_pattern, metar_upper, station_match, 1) \o <<" ","a","t"," ">>
          \o SubSeq(GroupChars(time_pattern, metar_upper, time_match, 1), 3, 4) \o <<":">>
          \o SubSeq(GroupChars(time_pattern, metar_upper, time_match, 1), 5, 6) \o <<"Z">>)

\* the characters of a flight category
CategoryText(flight_category) ==
    CASE flight_category = "VFR" -> <<"V","F","R">>
      [] flight_category = "MVFR" -> <<"M","V","F","R">>
      [] flight_category = "IFR" -> <<"I","F","R">>
      [] flight_category = "LIFR" -> <<"L","I","F","R">>
      [] OTHER -> <<"U","n","k","n","o","w","n">>

\* f"{visibility:.0f}": the nearest integer (metres / 1609 is never a tie)
Rounded(v) == (2 * v.num + v.den) \div (2 * v.den)
\* ('if visibility', 'if ceiling': None and zero are both false)
\* 3. visibility and ceiling
ReadingsLine(visibility, ceiling) ==
       <<"V","I","S","I","B","I","L","I","T","Y",":"," ">>
    \o (IF visibility # None /\ visibility.num # 0
        THEN DecStr(Rounded(visibility)) \o <<"S","M">> ELSE <<"U","n","k","n","o","w","n">>)
    \o <<" ","|"," ","C","E","I","L","I","N","G",":"," ">>
    \o (IF ceiling # None /\ ceiling.feet # 0
        THEN DecStr(ceiling.feet) \o <<"f","t">> ELSE <<"U","n","l","i","m","i","t","e","d","/","H","i","g","h">>)

\* 4. wind: f"{direction:03d}" of three matched digits is those digits
WindDescription(direction, speed, gust) ==
    IF ToInt(direction) = 0 THEN <<"C","A","L","M">>
    ELSE direction \o <<Degree>> \o <<" ","a","t"," ">> \o DecStr(speed) \o <<"k","t">>
         \o (IF gust # None /\ ToInt(gust.s) # 0
             THEN <<" ","g","u","s","t","i","n","g"," ">> \o DecStr(ToInt(gust.s)) \o <<"k","t">> ELSE <<>>)
WindLine(metar_upper, wind_match) ==
    IF wind_match.found
    THEN <<<<"W","I","N","D","S",":"," ">> \o WindDescription(GroupChars(wind_pattern, metar_upper, wind_match, 1),
                                         ToInt(GroupChars(wind_pattern, metar_upper, wind_match, 2)),
                                         Group(wind_pattern, metar_upper, wind_match, 3))>>
    ELSE <<>>

\* 5. weather phenomena
WeatherLine(weather_present) ==
    IF Len(weather_present) > 0 THEN <<"W","E","A","T","H","E","R",":"," ">> \o Join(<<","," ">>, weather_present)
    ELSE <<"W","E","A","T","H","E","R",":"," ","C","l","e","a","r"," ","o","f"," ","s","i","g","n","i","f","i","c","a","n","t"," ","p","h","e","n","o","m","e","n","a">>

\* temp_str.replace('M', '-') of a captured M?\d{2}
Minus(temp_str) == IF temp_str[1] = "M" THEN <<"-">> \o SubSeq(temp_str, 2, Len(temp_str)) ELSE temp_str
\* f"{int(digits) / 100:.2f}" of four digits
Hundredths(digits) == DecStr(ToInt(SubSeq(digits, 1, 2))) \o <<".">> \o SubSeq(digits, 3, 4)
\* 6. temperature and pressure, only when the temperature group is found
TempLine(metar_upper, temp_match, pressure_match) ==
    Point(temp_match.found,
             <<"T","E","M","P",":"," ">> \o Minus(GroupChars(temp_pattern, metar_upper, temp_match, 1)) \o <<Degree, "C">>
          \o <<" ","|"," ","D","E","W","P","O","I","N","T",":"," ">> \o Minus(GroupChars(temp_pattern, metar_upper, temp_match, 2)) \o <<Degree, "C">>
          \o (IF pressure_match.found
              THEN <<" ","|"," ","A","L","T","I","M","E","T","E","R",":"," ">>
                   \o Hundredths(GroupChars(pressure_pattern, metar_upper, pressure_match, 1))
                   \o <<" ","i","n","H","g">>
              ELSE <<>>))

\* 7. flight safety assessment
SafetyConcerns(metar_upper, category, wind_match) ==
       Point(category.flight_category \in {"IFR", "LIFR"}, <<"I","n","s","t","r","u","m","e","n","t"," ","c","o","n","d","i","t","i","o","n","s">>)
    \o Point(/\ category.visibility # None
             /\ category.visibility.num # 0
             /\ ~AtLeast(category.visibility, 3), <<"R","e","d","u","c","e","d"," ","v","i","s","i","b","i","l","i","t","y">>)
    \o Point(/\ category.ceiling # None
             /\ category.ceiling.feet # 0
             /\ category.ceiling.feet < 1000, <<"L","o","w"," ","c","e","i","l","i","n","g">>)
    \o Point(/\ wind_match.found
             /\ \/ ToInt(GroupChars(wind_pattern, metar_upper, wind_match, 2)) > 15
                \/ Group(wind_pattern, metar_upper, wind_match, 3) # None, <<"S","t","r","o","n","g","/","g","u","s","t","y"," ","w","i","n","d","s">>)
    \o Point(ContainsAny(metar_upper, {<<"T","S">>, <<"F","G">>, <<"S","N">>, <<"F","Z","R","A">>}), <<"A","d","v","e","r","s","e"," ","w","e","a","t","h","e","r">>)
SafetyLine(safety_concerns) ==
    IF Len(safety_concerns) > 0 THEN <<"C","A","U","T","I","O","N","S",":"," ">> \o Join(<<","," ">>, safety_concerns)
    ELSE <<"A","S","S","E","S","S","M","E","N","T",":"," ","F","a","v","o","r","a","b","l","e"," ","f","l","y","i","n","g"," ","c","o","n","d","i","t","i","o","n","s">>

\* 8. pilot recommendation
Recommendation(flight_category) ==
    CASE flight_category = "VFR" -> <<"R","E","C","O","M","M","E","N","D","A","T","I","O","N",":"," ","V","F","R"," ","f","l","i","g","h","t"," ","o","p","e","r","a","t","i","o","n","s"," ","s","u","i","t","a","b","l","e">>
      [] flight_category = "MVFR" -> <<"R","E","C","O","M","M","E","N","D","A","T","I","O","N",":"," ","M","o","n","i","t","o","r"," ","c","o","n","d","i","t","i","o","n","s",","," ","c","o","n","s","i","d","e","r"," ","I","F","R"," ","p","r","o","c","e","d","u","r","e","s">>
      [] flight_category \in {"IFR", "LIFR"} -> <<"R","E","C","O","M","M","E","N","D","A","T","I","O","N",":"," ","I","F","R"," ","p","r","o","c","e","d","u","r","e","s"," ","r","e","q","u","i","r","e","d",","," ","c","o","n","s","i","d","e","r"," ","d","e","l","a","y","s">>
      [] OTHER -> <<"R","E","C","O","M","M","E","N","D","A","T","I","O","N",":"," ","R","e","v","i","e","w"," ","c","u","r","r","e","n","t"," ","c","o","n","d","i","t","i","o","n","s"," ","c","a","r","e","f","u","l","l","y">>

summary_lines(metar_upper, category, wind_match) ==
       StationLine(metar_upper, ReSearch(station_pattern, metar_upper), ReSearch(time_pattern, metar_upper))
    \o <<<<"F","L","I","G","H","T"," ","C","A","T","E","G","O","R","Y",":"," ">> \o CategoryText(category.flight_category)>>
    \o <<ReadingsLine(category.visibility, category.ceiling)>>
    \o WindLine(metar_upper, wind_match)
    \o <<WeatherLine(Described(weather_codes, metar_upper, 1))>>
    \o TempLine(metar_upper, ReSearch(temp_pattern, metar_upper), ReSearch(pressure_pattern, metar_upper))
    \o <<SafetyLine(SafetyConcerns(metar_upper, category, wind_match))>>
    \o <<Recommendation(category.flight_category)>>

\* the summary: its text, with the category and the readings it reports
Briefed(metar_upper, category) ==
    [flight_category |-> category.flight_category,
     visibility |-> category.visibility,
     ceiling |-> category.ceiling,
     text |-> Join(<<"\n">>, summary_lines(metar_upper, category, ReSearch(wind_pattern, metar_upper)))]
_enhanced_pilot_metar_summary(raw_metar) ==
    Briefed(Upper(raw_metar),
            FlightCategory(ExtractVisibility(Upper(raw_metar)), ExtractCeiling(Upper(raw_metar))))

(* ---- the rule-based summaries of the other report types ---- *)
\* "NAME XXXX:" when the station follows the report name, "NAME:" otherwise
Heading(name, pattern, text_upper, airport_match) ==
    IF airport_match.found
    THEN name \o <<" ">> \o GroupChars(pattern, text_upper, airport_match, 1) \o <<":">>
    ELSE name \o <<":">>
Separator == <<" ", Bullet, " ">>

\* TAF ([A-Z]{4})
taf_airport == Pat1(<<Lit(<<"T","A","F"," ">>), Rep(Upcase, 4, 4)>>, 2, 2)
TafParts(taf_upper) ==
       <<Heading(<<"T","A","F">>, taf_airport, taf_upper, ReSearch(taf_airport, taf_upper))>>
    \o Point(Contains(taf_upper, <<"T","E","M","P","O">>), <<"t","e","m","p","o","r","a","r","y"," ","c","o","n","d","i","t","i","o","n","s"," ","e","x","p","e","c","t","e","d">>)
    \o Point(Contains(taf_upper, <<"B","E","C","M","G">>), <<"c","o","n","d","i","t","i","o","n","s"," ","b","e","c","o","m","i","n","g">>)
    \o Point(Contains(taf_upper, <<"F","M">>), <<"c","h","a","n","g","i","n","g"," ","c","o","n","d","i","t","i","o","n","s">>)
    \o Point(Contains(taf_upper, <<"T","S">>), <<"t","h","u","n","d","e","r","s","t","o","r","m","s"," ","f","o","r","e","c","a","s","t">>)
    \o Point(ContainsAny(taf_upper, {<<"-","R","A">>, <<"R","A">>, <<"+","R","A">>}),
             IF Contains(taf_upper, <<"-","R","A">>) THEN <<"l","i","g","h","t"," ","r","a","i","n">>
             ELSE IF Contains(taf_upper, <<"+","R","A">>) THEN <<"h","e","a","v","y"," ","r","a","i","n">>
             ELSE <<"r","a","i","n"," ","f","o","r","e","c","a","s","t">>)
    \o Point(Contains(taf_upper, <<"S","N">>), <<"s","n","o","w"," ","f","o","r","e","c","a","s","t">>)
    \o Point(ContainsAny(taf_upper, {<<"F","G">>, <<"B","R">>}), <<"v","i","s","i","b","i","l","i","t","y"," ","r","e","s","t","r","i","c","t","i","o","n","s">>)
    \o (IF Contains(taf_upper, <<"O","V","C">>) THEN <<<<"o","v","e","r","c","a","s","t"," ","p","e","r","i","o","d","s">>>>
        ELSE Point(Contains(taf_upper, <<"B","K","N">>), <<"b","r","o","k","e","n"," ","c","l","o","u","d"," ","l","a","y","e","r","s">>))
TafSummary(summary_parts) ==
    IF Len(summary_parts) > 1 THEN Join(Separator, summary_parts)
    ELSE <<"F","o","r","e","c","a","s","t"," ","c","o","n","d","i","t","i","o","n","s"," ","a","v","a","i","l","a","b","l","e">>
_fallback_taf_summary(taf_text) == TafSummary(TafParts(Upper(taf_text)))

\* (\d{3})
pirep_altitude == Pat1(<<Rep(Digit, 3, 3)>>, 1, 1)
PirepParts(pirep_upper, alt_match) ==
       Point(ContainsAny(pirep_upper, {<<"T","U","R","B">>, <<"T","U","R","B","U","L","E","N","C","E">>}),
             IF ContainsAny(pirep_upper, {<<"S","E","V">>, <<"S","E","V","E","R","E">>}) THEN <<"s","e","v","e","r","e"," ","t","u","r","b","u","l","e","n","c","e"," ","r","e","p","o","r","t","e","d">>
             ELSE IF ContainsAny(pirep_upper, {<<"M","O","D">>, <<"M","O","D","E","R","A","T","E">>}) THEN <<"m","o","d","e","r","a","t","e"," ","t","u","r","b","u","l","e","n","c","e">>
             ELSE <<"t","u","r","b","u","l","e","n","c","e"," ","r","e","p","o","r","t","e","d">>)
    \o Point(ContainsAny(pirep_upper, {<<"I","C","E">>, <<"I","C","I","N","G">>}),
             IF Contains(pirep_upper, <<"S","E","V">>) THEN <<"s","e","v","e","r","e"," ","i","c","i","n","g">>
             ELSE IF Contains(pirep_upper, <<"M","O","D">>) THEN <<"m","o","d","e","r","a","t","e"," ","i","c","i","n","g">>
             ELSE <<"i","c","i","n","g"," ","c","o","n","d","i","t","i","o","n","s">>)
    \o Point(ContainsAny(pirep_upper, {<<"T","O","P","S">>, <<"B","A","S","E">>}), <<"c","l","o","u","d"," ","l","a","y","e","r"," ","i","n","f","o">>)
    \o Point(ContainsAny(pirep_upper, {<<"V","I","S">>, <<"V","I","S","I","B","I","L","I","T","Y">>}), <<"v","i","s","i","b","i","l","i","t","y"," ","r","e","p","o","r","t">>)
    \o Point(ContainsAny(pirep_upper, {<<"S","M","O","O","T","H">>, <<"N","O"," ","T","U","R","B">>}), <<"s","m","o","o","t","h"," ","f","l","i","g","h","t"," ","c","o","n","d","i","t","i","o","n","s">>)
    \o (IF alt_match.found
        THEN <<<<"a","t"," ">> \o DecStr(ToInt(GroupChars(pirep_altitude, pirep_upper, alt_match, 1)) * 100) \o <<"f","t">>>>
        ELSE <<>>)
\* text[:n]
Leading(text, n) == SubSeq(text, 1, IF Len(text) < n THEN Len(text) ELSE n)
PirepSummary(pirep_text, summary_parts) ==
    IF Len(summary_parts) > 0 THEN <<"P","i","l","o","t"," ","r","e","p","o","r","t","s",":"," ">> \o Join(Separator, summary_parts)
    ELSE <<"P","i","l","o","t"," ","r","e","p","o","r","t",":"," ">> \o Leading(pirep_text, 80) \o <<".",".",".">>
_fallback_pirep_summary(pirep_text) ==
    PirepSummary(pirep_text, PirepParts(Upper(pirep_text), ReSearch(pirep_altitude, Upper(pirep_text))))

\* VALID (\d{6})/(\d{6})
sigmet_validity ==
    <<Alt(<<Lit(<<"V","A","L","I","D"," ">>), Rep(Digit, 6, 6), Lit(<<"/">>), Rep(Digit, 6, 6)>>, <<<<2, 2>>, <<4, 4>>>>)>>
SigmetHazards(sigmet_upper) ==
       Point(ContainsAny(sigmet_upper, {<<"T","S","T","M">>, <<"T","H","U","N","D","E","R","S","T","O","R","M">>, <<"T","S">>}), <<"t","h","u","n","d","e","r","s","t","o","r","m","s">>)
    \o Point(ContainsAny(sigmet_upper, {<<"T","U","R","B">>, <<"T","U","R","B","U","L","E","N","C","E">>}),
             IF Contains(sigmet_upper, <<"S","E","V">>) THEN <<"s","e","v","e","r","e"," ","t","u","r","b","u","l","e","n","c","e">> ELSE <<"t","u","r","b","u","l","e","n","c","e">>)
    \o Point(ContainsAny(sigmet_upper, {<<"I","C","E">>, <<"I","C","I","N","G">>}), <<"i","c","i","n","g">>)
    \o Point(ContainsAny(sigmet_upper, {<<"W","I","N","D">>, <<"L","L","W","S">>}), <<"w","i","n","d"," ","s","h","e","a","r">>)
    \o Point(Contains(sigmet_upper, <<"D","U","S","T">>) \/ Contains(sigmet_upper, <<"S","A","N","D">>), <<"d","u","s","t","/","s","a","n","d">>)
    \o Point(Contains(sigmet_upper, <<"A","S","H">>), <<"v","o","l","c","a","n","i","c"," ","a","s","h">>)
SigmetParts(sigmet_upper, hazards, time_match) ==
       <<WarningSign \o (IF ContainsAny(sigmet_upper, {<<"C","O","N","V","E","C","T","I","V","E">>, <<"C","O","N","V","E","C","T","V">>})
                         THEN <<" ","C","o","n","v","e","c","t","i","v","e"," ","S","I","G","M","E","T">> ELSE <<" ","S","I","G","M","E","T">>)>>
    \o Point(Len(hazards) > 0, <<"H","a","z","a","r","d","s",":"," ">> \o Join(<<","," ">>, hazards))
    \o (IF time_match.found
        THEN <<<<"V","a","l","i","d"," ">> \o GroupChars(sigmet_validity, sigmet_upper, time_match, 1) \o <<"-">>
               \o GroupChars(sigmet_validity, sigmet_upper, time_match, 2) \o <<"Z">>>>
        ELSE <<>>)
_fallback_sigmet_summary(sigmet_text) ==
    Join(Separator, SigmetParts(Upper(sigmet_text), SigmetHazards(Upper(sigmet_text)),
                                ReSearch(sigmet_validity, Upper(sigmet_text))))

\* (\d{3})-(\d{3})
airmet_altitudes ==
    <<Alt(<<Rep(Digit, 3, 3), Lit(<<"-">>), Rep(Digit, 3, 3)>>, <<<<1, 1>>, <<3, 3>>>>)>>
AirmetConditions(airmet_upper) ==
       Point(ContainsAny(airmet_upper, {<<"I","F","R">>, <<"M","V","F","R">>}), <<"r","e","d","u","c","e","d"," ","v","i","s","i","b","i","l","i","t","y">>)
    \o Point(Contains(airmet_upper, <<"T","U","R","B">>), <<"m","o","d","e","r","a","t","e"," ","t","u","r","b","u","l","e","n","c","e">>)
    \o Point(Contains(airmet_upper, <<"I","C","E">>) \/ Contains(airmet_upper, <<"I","C","I","N","G">>), <<"i","c","i","n","g"," ","c","o","n","d","i","t","i","o","n","s">>)
    \o Point(ContainsAny(airmet_upper, {<<"W","I","N","D">>, <<"S","F","C"," ","W","I","N","D">>}), <<"s","u","r","f","a","c","e"," ","w","i","n","d","s">>)
    \o Point(Contains(airmet_upper, <<"M","T","N"," ","O","B","S","C","N">>), <<"m","o","u","n","t","a","i","n"," ","o","b","s","c","u","r","a","t","i","o","n">>)
AirmetParts(airmet_upper, conditions, alt_match) ==
       <<Clipboard \o (IF Contains(airmet_upper, <<"S","I","E","R","R","A">>) THEN <<" ","A","I","R","M","E","T"," ","S","i","e","r","r","a"," ","(","I","F","R","/","M","o","u","n","t","a","i","n"," ","O","b","s","c","u","r","a","t","i","o","n",")">>
                       ELSE IF Contains(airmet_upper, <<"T","A","N","G","O">>) THEN <<" ","A","I","R","M","E","T"," ","T","a","n","g","o"," ","(","T","u","r","b","u","l","e","n","c","e",")">>
                       ELSE IF Contains(airmet_upper, <<"Z","U","L","U">>) THEN <<" ","A","I","R","M","E","T"," ","Z","u","l","u"," ","(","I","c","i","n","g",")">>
                       ELSE <<" ","A","I","R","M","E","T">>)>>
    \o Point(Len(conditions) > 0, <<"C","o","n","d","i","t","i","o","n","s",":"," ">> \o Join(<<","," ">>, conditions))
    \o (IF alt_match.found
        THEN <<DecStr(ToInt(GroupChars(airmet_altitudes, airmet_upper, alt_match, 1)) * 100) \o <<"-">>
               \o DecStr(ToInt(GroupChars(airmet_altitudes, airmet_upper, alt_match, 2)) * 100) \o <<"f","t">>>>
        ELSE <<>>)
_fallback_airmet_summary(airmet_text) ==
    Join(Separator, AirmetParts(Upper(airmet_text), AirmetConditions(Upper(airmet_text)),
                                ReSearch(airmet_altitudes, Upper(airmet_text))))

\* text.split('.'): the pieces between the full stops
Stops(text) == {i \in 1..Len(text) : text[i] = "."} \cup {0, Len(text) + 1}
\* the start of the first piece of more than 20 characters, 0 if none
FirstSentence(text) ==
    FirstOr0({i + 1 : i \in {s \in Stops(text) : \E j \in Stops(text) :
                 /\ s < j
                 /\ \A k \in Stops(text) : ~(s < k /\ k < j)
                 /\ Len(Strip(SubSeq(text, s + 1, j - 1))) > 20}})
NextStop(text, from) == Min({j \in Stops(text) : j >= from})
NotamParts(text_lower) ==
       Point(Contains(text_lower, <<"r","u","n","w","a","y">>) \/ Contains(text_lower, <<"r","w","y">>),
             IF Contains(text_lower, <<"c","l","o","s","e","d">>) THEN <<"R","u","n","w","a","y"," ","c","l","o","s","u","r","e">>
             ELSE IF Contains(text_lower, <<"c","o","n","s","t","r","u","c","t","i","o","n">>) THEN <<"R","u","n","w","a","y"," ","c","o","n","s","t","r","u","c","t","i","o","n">>
             ELSE <<"R","u","n","w","a","y"," ","N","O","T","A","M">>)
    \o Point(Contains(text_lower, <<"t","a","x","i","w","a","y">>) \/ Contains(text_lower, <<"t","w","y">>), <<"T","a","x","i","w","a","y"," ","r","e","s","t","r","i","c","t","i","o","n","s">>)
    \o Point(ContainsAny(text_lower, {<<"a","p","p","r","o","a","c","h">>, <<"i","l","s">>, <<"v","o","r">>}), <<"N","a","v","i","g","a","t","i","o","n","/","a","p","p","r","o","a","c","h"," ","c","h","a","n","g","e","s">>)
    \o Point(Contains(text_lower, <<"l","i","g","h","t","i","n","g">>), <<"L","i","g","h","t","i","n","g"," ","i","s","s","u","e","s">>)
    \o Point(ContainsAny(text_lower, {<<"f","u","e","l">>, <<"s","e","r","v","i","c","e">>}), <<"S","e","r","v","i","c","e"," ","l","i","m","i","t","a","t","i","o","n","s">>)
    \o Point(Contains(text_lower, <<"f","r","e","q","u","e","n","c","y">>), <<"F","r","e","q","u","e","n","c","y"," ","c","h","a","n","g","e","s">>)
    \o (IF ContainsAny(text_lower, {<<"c","l","o","s","e","d">>, <<"u","n","a","v","a","i","l","a","b","l","e">>, <<"e","m","e","r","g","e","n","c","y">>}) THEN <<<<"[","H","I","G","H"," ","I","M","P","A","C","T","]">>>>
        ELSE Point(ContainsAny(text_lower, {<<"r","e","s","t","r","i","c","t","e","d">>, <<"c","a","u","t","i","o","n">>, <<"l","i","m","i","t","e","d">>}), <<"[","M","O","D","E","R","A","T","E"," ","I","M","P","A","C","T","]">>))
NotamSummary(text, summary_parts, first) ==
    IF Len(summary_parts) > 0 THEN <<"N","O","T","A","M",":"," ">> \o Join(<<","," ">>, summary_parts)
    ELSE IF first # 0
    THEN <<"N","O","T","A","M",":"," ">> \o Leading(Strip(SubSeq(text, first, NextStop(text, first) - 1)), 100) \o <<".",".",".">>
    ELSE <<"N","O","T","A","M"," ","r","e","q","u","i","r","e","s"," ","p","i","l","o","t"," ","r","e","v","i","e","w",":"," ">> \o Leading(text, 50) \o <<".",".",".">>
_fallback_notam_summary(text) == NotamSummary(text, NotamParts(Lower(text)), FirstSentence(text))

(* ---- summarize_report and the summarizers of the report types ---- *)
\* the prompt of summarize_metar, up to the report
metar_prompt ==
       <<"P","r","o","v","i","d","e"," ","a"," ","c","o","m","p","r","e","h","e","n","s","i","v","e"," ","p","i","l","o","t"," ","b","r","i","e","f","i","n","g"," ","f","o","r"," ","t","h","i","s"," ","M","E","T","A","R"," ","i","n"," ","7","-","8"," ","l","i","n","e","s"," ","c","o","v","e","r","i","n","g",":">> \o <<"\n">>
    \o <<"1","."," ","F","l","i","g","h","t"," ","c","a","t","e","g","o","r","y"," ","(","V","F","R","/","M","V","F","R","/","I","F","R","/","L","I","F","R",")">> \o <<"\n">>
    \o <<"2","."," ","C","u","r","r","e","n","t"," ","v","i","s","i","b","i","l","i","t","y"," ","a","n","d"," ","c","e","i","l","i","n","g"," ","c","o","n","d","i","t","i","o","n","s">> \o <<"\n">>
    \o <<"3","."," ","W","i","n","d"," ","d","i","r","e","c","t","i","o","n",","," ","s","p","e","e","d",","," ","a","n","d"," ","g","u","s","t","s"," ","(","c","r","o","s","s","w","i","n","d"," ","c","o","n","c","e","r","n","s",")">> \o <<"\n">>
    \o <<"4","."," ","W","e","a","t","h","e","r"," ","p","h","e","n","o","m","e","n","a"," ","a","n","d"," ","p","r","e","c","i","p","i","t","a","t","i","o","n">> \o <<"\n">>
    \o <<"5","."," ","T","e","m","p","e","r","a","t","u","r","e"," ","a","n","d"," ","a","l","t","i","m","e","t","e","r"," ","s","e","t","t","i","n","g">> \o <<"\n">>
    \o <<"6","."," ","F","l","i","g","h","t"," ","s","a","f","e","t","y"," ","c","o","n","s","i","d","e","r","a","t","i","o","n","s">> \o <<"\n">>
    \o <<"7","."," ","O","p","e","r","a","t","i","o","n","a","l"," ","r","e","c","o","m","m","e","n","d","a","t","i","o","n","s">> \o <<"\n">>
    \o <<"M","E","T","A","R",":"," ">>
taf_prompt == <<"S","u","m","m","a","r","i","z","e"," ","t","h","i","s"," ","T","A","F"," ","f","o","r","e","c","a","s","t"," ","f","o","r"," ","f","l","i","g","h","t"," ","p","l","a","n","n","i","n","g",","," ","h","i","g","h","l","i","g","h","t","i","n","g"," ","c","h","a","n","g","i","n","g"," ","c","o","n","d","i","t","i","o","n","s",","," ","t","r","e","n","d","s",","," ","a","n","d"," ","t","i","m","i","n","g",":"," ">>
pirep_prompt == <<"S","u","m","m","a","r","i","z","e"," ","t","h","i","s"," ","p","i","l","o","t"," ","r","e","p","o","r","t"," ","f","o","c","u","s","i","n","g"," ","o","n"," ","f","l","i","g","h","t"," ","h","a","z","a","r","d","s",","," ","t","u","r","b","u","l","e","n","c","e",","," ","i","c","i","n","g",","," ","a","n","d"," ","v","i","s","i","b","i","l","i","t","y",":"," ">>
sigmet_prompt == <<"S","u","m","m","a","r","i","z","e"," ","t","h","i","s"," ","S","I","G","M","E","T"," ","f","o","c","u","s","i","n","g"," ","o","n"," ","f","l","i","g","h","t"," ","h","a","z","a","r","d","s",","," ","a","f","f","e","c","t","e","d"," ","a","r","e","a","s",","," ","a","n","d"," ","v","a","l","i","d","i","t","y"," ","t","i","m","e","s",":"," ">>
airmet_prompt == <<"S","u","m","m","a","r","i","z","e"," ","t","h","i","s"," ","A","I","R","M","E","T"," ","f","o","c","u","s","i","n","g"," ","o","n"," ","w","e","a","t","h","e","r"," ","c","o","n","d","i","t","i","o","n","s"," ","a","n","d"," ","f","l","i","g","h","t"," ","i","m","p","a","c","t","s",":"," ">>

\* 'if summary and not summary.startswith(cross mark)': the labelled summary
\* is returned, the rule-based summary of the report type otherwise
Accepted(answer, label, rule_based) ==
    IF Len(answer.summary) > 0 /\ answer.summary[1] # CrossMark
    THEN Answer(label \o answer.summary, answer.posts)
    ELSE Answer(rule_based, answer.posts)
\* the step shared by the six summarizers: 'if self.provider != "fallback"'
\* summarize(prompt) is tried first
Assisted(provider, api_key, prompt, label, reply, rule_based) ==
    IF provider # "fallback"
    THEN Accepted(summarize(provider, api_key, prompt, reply), label, rule_based)
    ELSE Answer(rule_based, 0)

\* the report is a text: str(data) is the text itself
summarize_metar(provider, api_key, metar_data, reply) ==
    Assisted(provider, api_key, metar_prompt \o metar_data, <<>>, reply,
             _enhanced_pilot_metar_summary(metar_data).text)
summarize_taf(provider, api_key, taf_data, reply) ==
    Assisted(provider, api_key, taf_prompt \o taf_data, <<"T","A","F"," ","S","u","m","m","a","r","y",":"," ">>, reply,
             _fallback_taf_summary(taf_data))
summarize_pirep(provider, api_key, pirep_data, reply) ==
    Assisted(provider, api_key, pirep_prompt \o pirep_data, <<"P","I","R","E","P",":"," ">>, reply,
             _fallback_pirep_summary(pirep_data))
summarize_sigmet(provider, api_key, sigmet_data, reply) ==
    Assisted(provider, api_key, sigmet_prompt \o sigmet_data, WarningSign \o <<" ","S","I","G","M","E","T",":"," ">>, reply,
             _fallback_sigmet_summary(sigmet_data))
summarize_airmet(provider, api_key, airmet_data, reply) ==
    Assisted(provider, api_key, airmet_prompt \o airmet_data, Clipboard \o <<" ","A","I","R","M","E","T",":"," ">>, reply,
             _fallback_airmet_summary(airmet_data))
summarize_notam(provider, api_key, notam_text, reply) ==
    Assisted(provider, api_key, notam_text, <<>>, reply, _fallback_notam_summary(notam_text))

summarize_report(provider, api_key, report_data, report_type, reply) ==
    CASE Lower(report_type) = <<"m","e","t","a","r">> -> summarize_metar(provider, api_key, report_data, reply)
      [] Lower(report_type) = <<"t","a","f">> -> summarize_taf(provider, api_key, report_data, reply)
      [] Lower(report_type) = <<"p","i","r","e","p">> -> summarize_pirep(provider, api_key, report_data, reply)
      [] Lower(report_type) = <<"s","i","g","m","e","t">> -> summarize_sigmet(provider, api_key, report_data, reply)
      [] Lower(report_type) = <<"a","i","r","m","e","t">> -> summarize_airmet(provider, api_key, report_data, reply)
      [] Lower(report_type) = <<"n","o","t","a","m">> -> summarize_notam(provider, api_key, report_data, reply)
      [] OTHER -> summarize(provider, api_key, report_data, reply)

(* ---- the configuration chosen by the constructor ---- *)
Config(provider, api_key) == [provider |-> provider, api_key |-> api_key]
\* _setup_fallback_config
_setup_fallback_config == Config("fallback", None)
\* _setup_local_config: token is the key found in the environment (None when
\* there is none); an unsupported provider raises inside the try block
_setup_local_config(provider, token) ==
    IF provider \in {"huggingface", "llama"}
    THEN (IF token = None THEN _setup_fallback_config ELSE Config(provider, token))
    ELSE _setup_fallback_config

(* ---- assess_flight_conditions ---- *)
\* \d{3}(\d{2})(?:G(\d{2}))?KT : the optional gust is tried first (greedy)
route_wind ==
    << Alt(<<Rep(Digit, 3, 3), Rep(Digit, 2, 2), Lit(<<"G">>), Rep(Digit, 2, 2), Lit(<<"K","T">>)>>,
           <<<<2, 2>>, <<4, 4>>>>),
       Alt(<<Rep(Digit, 3, 3), Rep(Digit, 2, 2), Lit(<<"K","T">>)>>, <<<<2, 2>>, <<0, 0>>>>) >>

Risk(factor, points) == [factor |-> factor, points |-> points]

\* the wind rule: wind_speed > 25 or gust_speed > 35
StrongWind(wind_speed, gust) ==
    wind_speed > 25 \/ (IF gust # None THEN ToInt(gust.s) ELSE 0) > 35
WindRisk(airport, raw_metar, wind_match) ==
    IF /\ wind_match.found
       /\ StrongWind(ToInt(GroupChars(route_wind, raw_metar, wind_match, 1)),
                     Group(route_wind, raw_metar, wind_match, 2))
    THEN <<Risk(airport \o ": Strong winds", 2)>>
    ELSE <<>>

\* variant: the IFR rule scores once for every token found
StationRisksPerToken(airport, raw_metar) ==
       (IF ContainsAny(raw_metar, {<<"T","S">>, <<"F","Z","R","A">>, <<"+","S","N">>})
        THEN <<Risk(airport \o ": Severe weather", 3)>> ELSE <<>>)
    \o (IF Contains(raw_metar, <<"O","V","C">>) THEN <<Risk(airport \o ": IFR conditions", 1)>> ELSE <<>>)
    \o (IF Contains(raw_metar, <<"1","S","M">>) THEN <<Risk(airport \o ": IFR conditions", 1)>> ELSE <<>>)
    \o (IF Contains(raw_metar, <<"2","S","M">>) THEN <<Risk(airport \o ": IFR conditions", 1)>> ELSE <<>>)
    \o WindRisk(airport, raw_metar, ReSearch(route_wind, raw_metar))
\* the rules applied to one station, in the order of the loop body
StationRisks(airport, raw_metar) ==
       (IF ContainsAny(raw_metar, {<<"T","S">>, <<"F","Z","R","A">>, <<"+","S","N">>})
        THEN <<Risk(airport \o ": Severe weather", 3)>> ELSE <<>>)
    \o (IF ContainsAny(raw_metar, {<<"O","V","C">>, <<"1","S","M">>, <<"2","S","M">>})
        THEN <<Risk(airport \o ": IFR conditions", 1)>> ELSE <<>>)
    \o WindRisk(airport, raw_metar, ReSearch(route_wind, raw_metar))

\* the risks of the stations i.. of current_conditions, in iteration order
RECURSIVE ConditionRisks(_, _)
ConditionRisks(current_conditions, i) ==
    IF i > Len(current_conditions) THEN <<>>
    ELSE StationRisks(current_conditions[i].airport, Upper(current_conditions[i].rawOb.s))
         \o ConditionRisks(current_conditions, i + 1)

RECURSIVE SumPoints(_)
SumPoints(risks) == IF Len(risks) = 0 THEN 0 ELSE Head(risks).points + SumPoints(Tail(risks))

\* variant: NO-GO only above 7
FinalAssessmentAbove7(severity_score) ==
    IF severity_score > 7
    THEN [overall_status |-> "NO-GO", confidence |-> "HIGH",
          recommendation |-> "Do not attempt flight - severe conditions"]
    ELSE IF severity_score >= 4
    THEN [overall_status |-> "CAUTION", confidence |-> "MEDIUM",
          recommendation |-> "Exercise extreme caution - consider alternate plans"]
    ELSE IF severity_score >= 2
    THEN [overall_status |-> "GO", confidence |-> "MEDIUM",
          recommendation |-> "Proceed with caution - monitor conditions"]
    ELSE [overall_status |-> "GO", confidence |-> "HIGH",
          recommendation |-> "Good conditions for flight"]

\* variant: the 2-3 tier reports confidence HIGH
FinalAssessmentSureGo(severity_score) ==
    IF severity_score >= 7
    THEN [overall_status |-> "NO-GO", confidence |-> "HIGH",
          recommendation |-> "Do not attempt flight - severe conditions"]
    ELSE IF severity_score >= 4
    THEN [overall_status |-> "CAUTION", confidence |-> "MEDIUM",
          recommendation |-> "Exercise extreme caution - consider alternate plans"]
    ELSE IF severity_score >= 2
    THEN [overall_status |-> "GO", confidence |-> "HIGH",
          recommendation |-> "Proceed with caution - monitor conditions"]
    ELSE [overall_status |-> "GO", confidence |-> "HIGH",
          recommendation |-> "Good conditions for flight"]

\* the final step function from the accumulated score
FinalAssessment(severity_score) ==
    IF severity_score >= 7
    THEN [overall_status |-> "NO-GO", confidence |-> "HIGH",
          recommendation |-> "Do not attempt flight - severe conditions"]
    ELSE IF severity_score >= 4
    THEN [overall_status |-> "CAUTION", confidence |-> "MEDIUM",
          recommendation |-> "Exercise extreme caution - consider alternate plans"]
    ELSE IF severity_score >= 2
    THEN [overall_status |-> "GO", confidence |-> "MEDIUM",
          recommendation |-> "Proceed with caution - monitor conditions"]
    ELSE [overall_status |-> "GO", confidence |-> "HIGH",
          recommendation |-> "Good conditions for flight"]

\* the result on the normal return path
Assessed(risks, severity_score, final) ==
    [overall_status |-> final.overall_status,
     confidence |-> final.confidence,
     risk_factors |-> [i \in 1..Len(risks) |-> risks[i].factor],
     recommendations |-> <<final.recommendation>>,
     severity_score |-> severity_score]
Scored(risks, severity_score) == Assessed(risks, severity_score, FinalAssessment(severity_score))
\* variant: every advisory of a collection scores on its own
AllRisksPerAdvisory(weather_data) ==
       ConditionRisks(weather_data.current_conditions, 1)
    \o [i \in 1..Len(weather_data.hazards.sigmets) |-> Risk("Active SIGMETs", 2)]
    \o [i \in 1..Len(weather_data.hazards.airmets) |-> Risk("Active AIRMETs", 1)]

\* the risks of the whole request: the station loop, then the two hazard checks
AllRisks(weather_data) ==
       ConditionRisks(weather_data.current_conditions, 1)
    \o (IF Len(weather_data.hazards.sigmets) > 0 THEN <<Risk("Active SIGMETs", 2)>> ELSE <<>>)
    \o (IF Len(weather_data.hazards.airmets) > 0 THEN <<Risk("Active AIRMETs", 1)>> ELSE <<>>)
Summed(risks) == Scored(risks, SumPoints(risks))

assess_flight_conditions(weather_data) ==
    IF \E i \in 1..Len(weather_data.current_conditions) :
           weather_data.current_conditions[i].rawOb.kind # "str"
    THEN \* rawOb.upper() raises: the except branch
         [overall_status |-> "UNKNOWN",
          confidence |-> "LOW",
          risk_factors |-> <<"Assessment error">>,
          recommendations |-> <<"Manual weather review required">>,
          severity_score |-> 5]
    ELSE Summed(AllRisks(weather_data))

(* ========================= the NOTAM state machine ===================== *)
VARIABLES
    corpus,         \* the family of fragments the caller's text is drawn from
    notam_text,     \* the notam_text argument of the next parse call
    nwords,         \* number of fragments notam_text is made of
    airport_hint,   \* the airport_code argument of the next parse call
    parsed,         \* outcome of the last parse call
    clock,          \* datetime.utcnow(), in ticks
    notam_texts,    \* the argument of the next parse_multiple call
    parsed_notams,  \* outcome of the last parse_multiple call
    statistics,     \* outcome of the last get_summary_statistics call
    metar_text,     \* the METAR text handed to the weather functions
    last_slot,      \* position in the METAR layout of its last group
    nwx,            \* number of present-weather groups in metar_text
    weather,        \* result of the last categorize_weather_conditions call
    metar_summary,  \* result of the last _enhanced_pilot_metar_summary call
    weather_data,   \* the weather_data argument of assess_flight_conditions
    assessment,     \* result of the last assess_flight_conditions call
    config,         \* provider and api_key chosen by WeatherSummarizer.__init__
    report_data,    \* the text handed to summarize / summarize_report
    nreport,        \* number of fragments report_data is made of
    request,        \* the last summarizer call: its kind, report type and backend reply
    summary,        \* result of the last summarizer call
    tables,         \* the pattern tables of the shared NOTAMParser instance
    calls           \* per thread, the parse call it is executing on that instance

notamVars == <<corpus, notam_text, nwords, airport_hint, parsed, clock>>
batchVars == <<notam_texts, parsed_notams, statistics>>
weatherVars == <<metar_text, last_slot, nwx, weather, metar_summary>>
routeVars == <<weather_data, assessment>>
summaryVars == <<config, report_data, nreport, request, summary>>
sharedVars == <<tables, calls>>
vars == <<notamVars, batchVars, weatherVars, routeVars, summaryVars, sharedVars>>

NotCalled == [raised |-> FALSE, called |-> FALSE]
WasCalled(outcome) == "called" \notin DOMAIN outcome

\* runway-closure NOTAM of tests/test_notam_parser.py (sample_notams), as
\* quoted by the end-to-end property
RunwayClosureSample ==
    <<"A","1","2","3","4","/","2","1"," ","N","O","T","A","M","N"," ","Q",")","K","O","R","D","/",".",".",".","/","4","1","5","5","N","0","8","7","4","8","W","0","0","5"," ","A",")","K","O","R","D"," ","B",")","2","1","1","0","0","1","1","2","0","0"," ","C",")","2","1","1","0","0","1","2","3","5","9"," ","E",")","R","W","Y"," ","1","0","L","/","2","8","R"," ","C","L","S","D">>

\* fragments about closures and advisories: one per severity tier, one that
\* matches no tier, the altitude phrase with a thousands separator
ClosureWords ==
    { RunwayClosureSample,
      <<"R","U","N","W","A","Y"," ","C","L","O","S","E","D">>,
      <<"R","u","n","w","a","y"," ","C","l","o","s","e","d"," ","1","0","L">>,
      <<"T","A","X","I","W","A","Y"," ","B"," ","C","L","O","S","E","D">>,
      <<"P","I","L","O","T","S"," ","A","D","V","I","S","E","D">>,
      <<"C","R","A","N","E"," ","E","R","E","C","T","E","D">>,
      <<"S","U","R","F","A","C","E"," ","F","L"," ","1",",","0","0","0"," ","F","T">> }

\* fragments about validity: valid and invalid YYMMDDhhmm tokens behind each
\* kind of marker, a flight level, the altitude phrase with a thousands separator
DateWords ==
    { <<"F","M"," ","2","1","1","0","0","1","1","2","0","0">>,
      <<"F","M"," ","2","1","1","3","0","1","1","2","0","0">>,
      <<"E","F","F","E","C","T","I","V","E"," ","2","4","0","2","2","9","1","2","0","5">>,
      <<"2","1","0","2","3","0","0","0","0","0"," ","U","T","C">>,
      <<"T","I","L"," ","2","1","1","0","0","1","2","3","5","9">>,
      <<"U","N","T","I","L"," ","2","1","1","0","0","1","2","4","6","0">>,
      <<"S","F","C","-","F","L","1","8","0">>,
      <<"S","U","R","F","A","C","E"," ","F","L"," ","1",",","0","0","0"," ","F","T">> }

\* fragments about the operational impact: the closure terms in full and
\* abbreviated, a high-tier text, an informational text, a high-impact term
ImpactWords ==
    { <<"T","W","Y"," ","A"," ","C","L","S","D">>,
      <<"F","U","E","L"," ","U","N","A","V","B","L">>,
      <<"T","A","X","I","W","A","Y"," ","B"," ","C","L","O","S","E","D">>,
      <<"R","U","N","W","A","Y"," ","C","L","O","S","E","D">>,
      <<"F","U","E","L"," ","U","N","A","V","A","I","L","A","B","L","E">>,
      <<"F","O","R"," ","I","N","F","O","R","M","A","T","I","O","N"," ","O","N","L","Y">> }

\* fragments about the airport: a code behind each marker, a bare code, text
\* without any code, a marker followed by too few letters
AirportWords ==
    { <<"A",")"," ","K","S","F","O">>,
      <<"Q",")","K","J","F","K","/","Q","M","X","L","C">>,
      <<"E","G","L","L"," ","T","W","R">>,
      <<"r","w","y"," ","1","0","l">>,
      <<"a",")","k","s">> }

\* fragments about positions: degrees, minutes and seconds in each
\* hemisphere, with and without a blank, in small letters, on the equator
\* and the prime meridian, and a position in degrees and minutes
CoordinateWords ==
    { <<"4","1","5","5","3","0","N","0","8","7","4","8","3","0","W">>,
      <<"3","3","5","6","3","0","S"," ","1","5","1","1","0","3","8","E">>,
      <<"p","s","n"," ","0","0","0","0","0","0","s","0","0","0","0","0","0","0","w">>,
      <<"4","1","5","5","N","0","8","7","4","8","W","0","0","5">>,
      <<"S","E"," ","O","F"," ","5","1","5","9","6","0","N","0","0","0","0","0","0","1","E">> }

\* fragments that name facilities: a runway, a taxiway, a navaid, an
\* approach, a frequency, a runway with a worded side, and a sentence longer
\* than the context kept around a match
FacilityWords ==
    { <<"R","W","Y"," ","1","0","L"," ","C","L","S","D">>,
      <<"T","W","Y"," ","A"," ","C","L","S","D">>,
      <<"V","O","R"," ","A","B","C"," ","U","/","S">>,
      <<"I","L","S"," ","R","W","Y"," ","2","8","R">>,
      <<"F","R","E","Q"," ","1","1","8",".","3","0"," ","M","H","Z">>,
      <<"R","U","N","W","A","Y"," ","0","9"," ","L","E","F","T">>,
      <<"T","A","X","I","W","A","Y"," ","B"," ","B","T","N"," ","R","W","Y"," ","1","0","L"," ","A","N","D"," ","T","W","Y"," ","A"," ","C","L","O","S","E","D">> }

\* the families about severity and validity, and those about single fields
NotamCorpora == {"closure", "dates"}
FieldCorpora == {"impact", "airport", "position"}
Words(c) ==
    CASE c = "closure" -> ClosureWords
      [] c = "dates" -> DateWords
      [] c = "impact" -> ImpactWords
      [] c = "airport" -> AirportWords
      [] c = "position" -> CoordinateWords
      [] c = "facility" -> FacilityWords

\* inputs that are not text
NonText == {None, IntValue(123), ListValue(1), BytesValue(3)}
Hints == {Str(<<"K","J","F","K">>)}

\* latest reading of the clock
MaxClock == 1

\* no parse call has been made
NotamIdle ==
    /\ notam_text = Str(<<>>)
    /\ nwords = 0
    /\ airport_hint = None
    /\ parsed = NotCalled
    /\ clock = 0
\* no parse_multiple call has been made
BatchIdle ==
    /\ notam_texts = <<>>
    /\ parsed_notams = NotCalled
    /\ statistics = NotCalled
\* no weather text has been analysed
WeatherIdle ==
    /\ metar_text = Str(<<>>)
    /\ last_slot = 0
    /\ nwx = 0
    /\ weather = NotCalled
    /\ metar_summary = NotCalled
\* threads that call parse on the shared instance
MaxThreads == 2
Threads == 1..MaxThreads
\* a thread outside parse
IdleCall == [pc |-> "idle", notam_text |-> Str(<<>>), severity |-> "", impact |-> None, result |-> NotCalled]
\* the instance as __init__ leaves it, no thread inside parse
SharedIdle ==
    /\ tables = PatternTables
    /\ calls = [t \in Threads |-> IdleCall]
\* no summarizer call has been made
SummaryIdle ==
    /\ config = _setup_fallback_config
    /\ report_data = <<>>
    /\ nreport = 0
    /\ request = NotCalled
    /\ summary = NotCalled
\* the assessment of a request without stations and without advisories
NoWeatherData == [current_conditions |-> <<>>, hazards |-> [sigmets |-> <<>>, airmets |-> <<>>]]
RouteIdle ==
    /\ weather_data = NoWeatherData
    /\ assessment = assess_flight_conditions(NoWeatherData)

InitNotam ==
    /\ corpus \in NotamCorpora
    /\ NotamIdle
    /\ BatchIdle
    /\ WeatherIdle
    /\ RouteIdle
    /\ SummaryIdle
    /\ SharedIdle

\* the caller extends the text by one fragment
Compose(w) ==
    /\ ~WasCalled(parsed)
    /\ notam_text.kind = "str"
    /\ nwords < MaxWords
    /\ notam_text' = Str(IF nwords = 0 THEN w ELSE notam_text.s \o <<" ">> \o w)
    /\ nwords' = nwords + 1
    /\ UNCHANGED <<sharedVars, corpus, airport_hint, parsed, clock, batchVars, weatherVars, routeVars, summaryVars>>

\* the caller passes something that is not text
SubmitNonText(v) ==
    /\ ~WasCalled(parsed)
    /\ nwords = 0
    /\ notam_text = Str(<<>>)
    /\ airport_hint = None
    /\ notam_text' = v
    /\ UNCHANGED <<sharedVars, corpus, nwords, airport_hint, parsed, clock, batchVars, weatherVars, routeVars, summaryVars>>

\* the caller supplies the optional airport code
GiveHint(h) ==
    /\ ~WasCalled(parsed)
    /\ notam_text.kind = "str"
    /\ airport_hint = None
    /\ airport_hint' = h
    /\ UNCHANGED <<sharedVars, corpus, notam_text, nwords, parsed, clock, batchVars, weatherVars, routeVars, summaryVars>>

\* parser.parse(notam_text, airport_hint); a repeated call happens later
Parse ==
    /\ IF WasCalled(parsed) THEN ~parsed.raised /\ parsed.value.parsed_at < clock ELSE TRUE
    /\ parsed' = parse(notam_text, airport_hint, clock)
    /\ UNCHANGED <<sharedVars, corpus, notam_text, nwords, airport_hint, clock, batchVars, weatherVars, routeVars, summaryVars>>

\* time passes between two calls
Tick ==
    /\ WasCalled(parsed)
    /\ clock < MaxClock
    /\ clock' = clock + 1
    /\ UNCHANGED <<sharedVars, corpus, notam_text, nwords, airport_hint, parsed, batchVars, weatherVars, routeVars, summaryVars>>

NextNotam ==
    \/ \E w \in Words(corpus) : Compose(w)
    \/ \E v \in NonText : SubmitNonText(v)
    \/ \E h \in Hints : GiveHint(h)
    \/ Parse
    \/ Tick

SpecNotam == InitNotam /\ [][NextNotam]_vars

\* the same calls on the texts about the impact, the airport and the position
InitFields ==
    /\ corpus \in FieldCorpora
    /\ NotamIdle
    /\ BatchIdle
    /\ WeatherIdle
    /\ RouteIdle
    /\ SummaryIdle
    /\ SharedIdle

SpecFields == InitFields /\ [][NextNotam]_vars

\* the same calls on the texts that name facilities
InitFacility ==
    /\ corpus = "facility"
    /\ NotamIdle
    /\ BatchIdle
    /\ WeatherIdle
    /\ RouteIdle
    /\ SummaryIdle
    /\ SharedIdle

SpecFacility == InitFacility /\ [][NextNotam]_vars

(* ====================== the parse_multiple state machine =============== *)
\* longest list handed to parse_multiple
MaxBatch == 3

\* entries of a batch: a well-formed NOTAM, free text without NOTAM structure
\* (tests/test_notam_parser.py, malformed_notams), a text on which parse ends
\* in its except branch, a text with eleven keywords, the empty text, and a
\* null entry
BatchEntries ==
    { Str(<<"A","5","6","7","8","/","2","1"," ","T","W","Y"," ","A"," ","C","L","S","D">>),
      Str(<<"R","A","N","D","O","M"," ","T","E","X","T"," ","W","I","T","H"," ","N","O"," ","N","O","T","A","M"," ","S","T","R","U","C","T","U","R","E">>),
      Str(<<"S","U","R","F","A","C","E"," ","F","L"," ","1",",","0","0","0"," ","F","T">>),
      Str(<<"I","L","S"," ","R","W","Y"," ","1","0","L"," ","A","P","P","R","O","A","C","H"," ","C","L","O","S","E","D",","," ","T","A","X","I","W","A","Y"," ","A"," ","L","I","G","H","T","I","N","G"," ","U","N","A","V","A","I","L","A","B","L","E",","," ","F","U","E","L"," ","R","E","S","T","R","I","C","T","E","D"," ","D","U","E"," ","C","O","N","S","T","R","U","C","T","I","O","N"," ","C","R","A","N","E">>),
      Str(<<>>),
      None }

InitBatch ==
    /\ corpus = "closure"
    /\ NotamIdle
    /\ BatchIdle
    /\ WeatherIdle
    /\ RouteIdle
    /\ SummaryIdle
    /\ SharedIdle

\* the caller appends one entry to the list
Enqueue(e) ==
    /\ ~WasCalled(parsed_notams)
    /\ Len(notam_texts) < MaxBatch
    /\ notam_texts' = Append(notam_texts, e)
    /\ UNCHANGED <<sharedVars, notamVars, parsed_notams, statistics, weatherVars, routeVars, summaryVars>>

\* parser.parse_multiple(notam_texts)
ParseMultiple ==
    /\ ~WasCalled(parsed_notams)
    /\ parsed_notams' = parse_multiple(notam_texts, clock)
    /\ UNCHANGED <<sharedVars, notamVars, notam_texts, statistics, weatherVars, routeVars, summaryVars>>

\* parser.get_summary_statistics(parsed_notams) on the list parse_multiple
\* returned
GetSummaryStatistics ==
    /\ WasCalled(parsed_notams)
    /\ ~parsed_notams.raised
    /\ ~WasCalled(statistics)
    /\ statistics' \in get_summary_statistics(parsed_notams.value)
    /\ UNCHANGED <<sharedVars, notamVars, notam_texts, parsed_notams, weatherVars, routeVars, summaryVars>>

NextBatch ==
    \/ \E e \in BatchEntries : Enqueue(e)
    \/ ParseMultiple
    \/ GetSummaryStatistics

SpecBatch == InitBatch /\ [][NextBatch]_vars

(* ========================= the weather state machine =================== *)
\* present-weather groups in one generated METAR
MaxWx == 2

\* a METAR group and its place in the layout:
\* 1 station, 2 time, 3 wind, 4 visibility, 5 present weather, 6 cloud
Grp(slot, chars) == [slot |-> slot, s |-> chars]

\* reports for the flight-category thresholds: every visibility and ceiling
\* on either side of a threshold, behind the leading groups of a METAR
CategoryGroups ==
    { Grp(1, <<"M","E","T","A","R"," ","K","O","R","D">>), Grp(2, <<"0","1","1","2","0","0","Z">>), Grp(3, <<"2","7","0","1","5","K","T">>),
      Grp(4, <<"6","S","M">>), Grp(4, <<"5","S","M">>), Grp(4, <<"4","S","M">>), Grp(4, <<"3","S","M">>),
      Grp(4, <<"2","S","M">>), Grp(4, <<"1","S","M">>), Grp(4, <<"0","S","M">>),
      Grp(6, <<"F","E","W","0","3","0">>), Grp(6, <<"B","K","N","0","3","5">>), Grp(6, <<"O","V","C","0","3","0">>), Grp(6, <<"B","K","N","0","2","9">>),
      Grp(6, <<"O","V","C","0","1","0">>), Grp(6, <<"B","K","N","0","0","8">>), Grp(6, <<"O","V","C","0","0","5">>), Grp(6, <<"B","K","N","0","0","4">>),
      Grp(6, <<"O","V","C","0","0","0">>) }

\* reports for the condition checklists: gusts of each band, visibilities,
\* present weather of both tiers, ceilings of both tiers
ConditionGroups ==
    { Grp(3, <<"2","7","0","0","8","K","T">>), Grp(3, <<"2","7","0","1","8","K","T">>), Grp(3, <<"2","7","0","1","2","G","2","5","K","T">>), Grp(3, <<"2","7","0","2","2","G","3","5","K","T">>),
      Grp(4, <<"1","0","S","M">>), Grp(4, <<"7","S","M">>), Grp(4, <<"3","S","M">>), Grp(4, <<"1","/","2","S","M">>),
      Grp(5, <<"T","S">>), Grp(5, <<"B","R">>), Grp(5, <<"-","R","A">>), Grp(5, <<"+","R","A">>), Grp(5, <<"F","Z","F","G">>),
      Grp(6, <<"S","C","T","2","5","0">>), Grp(6, <<"B","K","N","0","0","8">>), Grp(6, <<"O","V","C","0","0","2">>) }

\* reports for the gust rules: a gust on each side of 20 and of 30 knots,
\* at and between the values the checklists spell out, with and without a
\* thunderstorm
GustGroups ==
    { Grp(1, <<"K","O","R","D">>),
      Grp(3, <<"2","7","0","0","8","G","1","8","K","T">>), Grp(3, <<"2","7","0","0","8","G","2","0","K","T">>), Grp(3, <<"2","7","0","0","8","G","2","2","K","T">>),
      Grp(3, <<"2","7","0","0","8","G","2","9","K","T">>), Grp(3, <<"2","7","0","0","8","G","3","0","K","T">>), Grp(3, <<"2","7","0","0","8","G","3","2","K","T">>),
      Grp(3, <<"2","7","0","0","8","G","5","0","K","T">>),
      Grp(4, <<"1","0","S","M">>), Grp(5, <<"T","S">>), Grp(6, <<"S","C","T","2","5","0">>) }

Groups(c) ==
    CASE c = "category" -> CategoryGroups
      [] c = "conditions" -> ConditionGroups
      [] c = "gusts" -> GustGroups

InitWeather ==
    /\ corpus \in {"category", "conditions", "gusts"}
    /\ NotamIdle
    /\ BatchIdle
    /\ WeatherIdle
    /\ RouteIdle
    /\ SummaryIdle
    /\ SharedIdle

Analysed == WasCalled(weather) \/ WasCalled(metar_summary)

\* the report grows by one group, in METAR order; present weather may repeat
ComposeMetar(g) ==
    /\ ~Analysed
    /\ metar_text.kind = "str"
    /\ g.slot > last_slot \/ (g.slot = 5 /\ last_slot = 5 /\ nwx < MaxWx)
    /\ metar_text' = Str(IF last_slot = 0 THEN g.s ELSE metar_text.s \o <<" ">> \o g.s)
    /\ last_slot' = g.slot
    /\ nwx' = IF g.slot = 5 THEN nwx + 1 ELSE nwx
    /\ UNCHANGED <<sharedVars, notamVars, batchVars, weather, metar_summary, routeVars, summaryVars>>

\* summarizer.categorize_weather_conditions(metar_text)
Categorize ==
    /\ ~WasCalled(weather)
    /\ weather' = categorize_weather_conditions(metar_text)
    /\ UNCHANGED <<sharedVars, notamVars, batchVars, metar_text, last_slot, nwx, metar_summary, routeVars, summaryVars>>

\* summarizer._enhanced_pilot_metar_summary(metar_text)
SummarizeMetar ==
    /\ ~WasCalled(metar_summary)
    /\ metar_text.kind = "str"
    /\ metar_summary' = _enhanced_pilot_metar_summary(metar_text.s)
    /\ UNCHANGED <<sharedVars, notamVars, batchVars, metar_text, last_slot, nwx, weather, routeVars, summaryVars>>

NextWeather ==
    \/ \E g \in Groups(corpus) : ComposeMetar(g)
    \/ Categorize
    \/ SummarizeMetar

SpecWeather == InitWeather /\ [][NextWeather]_vars

(* ========================== the route state machine ==================== *)
\* stations of one route request
MaxStations == 3
\* advisories of one kind in one request
MaxAdvisories == 2

\* the rawOb of a station snapshot: a quiet report, one per rule, one that
\* fires all three rules, and a snapshot whose rawOb is null
Observations ==
    { Str(<<"1","8","0","0","5","K","T"," ","1","0","S","M"," ","C","L","R">>),
      Str(<<"1","8","0","0","5","K","T"," ","1","0","S","M"," ","T","S">>),
      Str(<<"1","8","0","0","5","K","T"," ","2","S","M"," ","B","K","N","0","0","8">>),
      Str(<<"2","7","0","3","0","K","T"," ","1","0","S","M">>),
      Str(<<"2","7","0","2","0","G","4","0","K","T"," ","1","S","M"," ","+","S","N"," ","O","V","C","0","0","5">>),
      None }

\* station ids in the order they join the request
Airport(i) == "ST" \o ToString(i)

InitRoute ==
    /\ corpus = "route"
    /\ NotamIdle
    /\ BatchIdle
    /\ WeatherIdle
    /\ RouteIdle
    /\ SummaryIdle
    /\ SharedIdle

\* a request whose weather_data has one more station snapshot
AssessWithStation(ob) ==
    /\ Len(weather_data.current_conditions) < MaxStations
    /\ weather_data' =
         [weather_data EXCEPT !.current_conditions =
             Append(@, [airport |-> Airport(Len(@) + 1), rawOb |-> ob])]
    /\ assessment' = assess_flight_conditions(weather_data')
    /\ UNCHANGED <<sharedVars, notamVars, batchVars, weatherVars, summaryVars>>

\* a request whose hazards hold one more SIGMET
AssessWithSigmet ==
    /\ Len(weather_data.hazards.sigmets) < MaxAdvisories
    /\ weather_data' = [weather_data EXCEPT !.hazards.sigmets = Append(@, "SIGMET")]
    /\ assessment' = assess_flight_conditions(weather_data')
    /\ UNCHANGED <<sharedVars, notamVars, batchVars, weatherVars, summaryVars>>

\* a request whose hazards hold one more AIRMET
AssessWithAirmet ==
    /\ Len(weather_data.hazards.airmets) < MaxAdvisories
    /\ weather_data' = [weather_data EXCEPT !.hazards.airmets = Append(@, "AIRMET")]
    /\ assessment' = assess_flight_conditions(weather_data')
    /\ UNCHANGED <<sharedVars, notamVars, batchVars, weatherVars, summaryVars>>

NextRoute ==
    \/ \E ob \in Observations : AssessWithStation(ob)
    \/ AssessWithSigmet
    \/ AssessWithAirmet

SpecRoute == InitRoute /\ [][NextRoute]_vars

(* ====================== the summarizer state machine =================== *)
\* number of fragments a report text is composed of
MaxReport == 2

\* a bulletin separator as long as the input limit of the HuggingFace call
Ruler == [i \in 1..InputLimit |-> "="]
\* fragments of the six report types and of a long bulletin, by family
ReportCorpora == {"metar", "taf", "pirep", "sigmet", "airmet", "notam", "bulletin"}
ReportWords(c) ==
    CASE c = "metar" -> {<<"M","E","T","A","R"," ","K","O","R","D"," ","0","1","1","2","0","0","Z"," ","2","7","0","1","5","G","2","5","K","T"," ","1","0","S","M"," ","B","K","N","0","3","5"," ","2","2","/","1","8"," ","A","2","9","9","2">>,
                         <<"0","0","0","0","0","K","T"," ","2","S","M"," ","B","R"," ","O","V","C","0","0","4"," ","M","0","5","/","M","0","7">>}
      [] c = "taf" -> {<<"T","A","F"," ","K","J","F","K"," ","0","1","1","1","3","0","Z"," ","T","E","M","P","O"," ","5","S","M"," ","-","R","A"," ","B","K","N","0","2","0">>, <<"F","M","0","1","1","8","0","0"," ","1","8","0","1","0","K","T"," ","P","6","S","M"," ","S","K","C">>}
      [] c = "pirep" -> {<<"U","A"," ","/","O","V"," ","O","R","D"," ","/","T","B"," ","M","O","D"," ","T","U","R","B">>, <<"S","M","O","O","T","H">>}
      [] c = "sigmet" -> {<<"C","O","N","V","E","C","T","I","V","E"," ","S","I","G","M","E","T"," ","V","A","L","I","D"," ","0","1","1","2","0","0","/","0","1","1","6","0","0">>, <<"S","E","V"," ","T","U","R","B">>}
      [] c = "airmet" -> {<<"A","I","R","M","E","T"," ","T","A","N","G","O"," ","0","8","0","-","1","2","0">>, <<"M","T","N"," ","O","B","S","C","N">>}
      [] c = "notam" -> {<<"C","r","a","n","e"," ","e","r","e","c","t","e","d"," ","n","e","a","r"," ","t","h","e"," ","a","p","p","r","o","a","c","h"," ","p","a","t","h","."," ","R","W","Y"," ","1","0","L","/","2","8","R"," ","C","L","O","S","E","D">>,
                         <<"B","i","r","d","s"," ","i","n"," ","t","h","e"," ","v","i","c","i","n","i","t","y"," ","o","f"," ","t","h","e"," ","a","i","r","p","o","r","t",".">>}
      [] c = "bulletin" -> {Ruler, <<"2","7","0","3","0","K","T"," ","+","T","S","R","A">>}
ReportTypes == {<<"m","e","t","a","r">>, <<"T","A","F">>, <<"p","i","r","e","p">>, <<"s","i","g","m","e","t">>, <<"a","i","r","m","e","t">>, <<"n","o","t","a","m">>, <<"b","r","i","e","f","i","n","g">>}
\* the replies of the backend: the three exceptions of the request, a body
\* without candidates, candidates without or with an empty summary, and a
\* generated summary
Replies ==
    { Failure("Timeout"), Failure("ConnectionError"), Failure("HTTPError"),
      Body(<<>>), Body(<<None>>), Body(<<Str(<<>>)>>),
      Body(<<Str(<<"C","o","n","d","i","t","i","o","n","s"," ","a","r","e"," ","s","t","a","b","l","e",".">>)>>) }
\* WeatherSummarizer(provider=...) with and without a key in the environment
Providers == {"huggingface", "llama", "openai"}
Tokens == {None, Str(<<"k","e","y">>)}

InitSummary ==
    /\ corpus \in ReportCorpora
    /\ NotamIdle
    /\ BatchIdle
    /\ WeatherIdle
    /\ RouteIdle
    /\ SharedIdle
    /\ \E provider \in Providers, token \in Tokens : config = _setup_local_config(provider, token)
    /\ report_data = <<>>
    /\ nreport = 0
    /\ request = NotCalled
    /\ summary = NotCalled

\* the caller extends the report by one fragment
ComposeReport(w) ==
    /\ ~WasCalled(summary)
    /\ nreport < MaxReport
    /\ report_data' = (IF nreport = 0 THEN w ELSE report_data \o <<" ">> \o w)
    /\ nreport' = nreport + 1
    /\ UNCHANGED <<sharedVars, notamVars, batchVars, weatherVars, routeVars, config, request, summary>>

\* summarizer.summarize(report_data), the backend answering with reply
Summarize(reply) ==
    /\ ~WasCalled(summary)
    /\ nreport > 0
    /\ summary' = summarize(config.provider, config.api_key, report_data, reply)
    /\ request' = [op |-> "summarize", report_type |-> <<>>, reply |-> reply]
    /\ UNCHANGED <<sharedVars, notamVars, batchVars, weatherVars, routeVars, config, report_data, nreport>>

\* summarizer.summarize_report(report_data, report_type)
SummarizeReport(report_type, reply) ==
    /\ ~WasCalled(summary)
    /\ nreport > 0
    /\ summary' = summarize_report(config.provider, config.api_key, report_data, report_type, reply)
    /\ request' = [op |-> "summarize_report", report_type |-> report_type, reply |-> reply]
    /\ UNCHANGED <<sharedVars, notamVars, batchVars, weatherVars, routeVars, config, report_data, nreport>>

NextSummary ==
    \/ \E w \in ReportWords(corpus) : ComposeReport(w)
    \/ \E reply \in Replies : Summarize(reply)
    \/ \E report_type \in ReportTypes, reply \in Replies : SummarizeReport(report_type, reply)

SpecSummary == InitSummary /\ [][NextSummary]_vars

(* ============ concurrent parse calls on one shared parser ============== *)
\* texts the threads parse: one per severity tier, an abbreviated closure
\* that matches no tier, and one on which parse ends in its except branch
SharedTexts ==
    { <<"R","U","N","W","A","Y"," ","C","L","O","S","E","D">>,
      <<"T","W","Y"," ","A"," ","C","L","S","D">>,
      <<"P","I","L","O","T","S"," ","A","D","V","I","S","E","D">>,
      <<"S","U","R","F","A","C","E"," ","F","L"," ","1",",","0","0","0"," ","F","T">> }

\* texts about a fuel service: closed in full, closed in abbreviation and
\* unavailable, unavailable only, and a taxiway closure
PairTexts ==
    { <<"F","U","E","L"," ","C","L","O","S","E","D">>,
      <<"F","U","E","L"," ","U","N","A","V","A","I","L","A","B","L","E"," ","C","L","S","D">>,
      <<"F","U","E","L"," ","U","N","A","V","A","I","L","A","B","L","E">>,
      <<"T","W","Y"," ","A"," ","C","L","S","D">> }

\* the texts of the family the threads draw from
TextsOf(c) == IF c = "impact" THEN PairTexts ELSE SharedTexts

\* the list a further caller hands to parse_multiple meanwhile
SharedBatch == << Str(<<"T","A","X","I","W","A","Y"," ","B"," ","C","L","O","S","E","D">>), Str(<<"S","U","R","F","A","C","E"," ","F","L"," ","1",",","0","0","0"," ","F","T">>) >>

InitShared ==
    /\ corpus = "closure"
    /\ NotamIdle
    /\ notam_texts = SharedBatch
    /\ parsed_notams = NotCalled
    /\ statistics = NotCalled
    /\ WeatherIdle
    /\ RouteIdle
    /\ SummaryIdle
    /\ SharedIdle

\* thread t enters parser.parse(w): the next table it reads is severity_patterns
Enter(t, w) ==
    /\ calls[t].pc = "idle"
    /\ calls' = [calls EXCEPT ![t] = [IdleCall EXCEPT !.pc = "severity", !.notam_text = Str(w)]]
    /\ UNCHANGED <<notamVars, batchVars, weatherVars, routeVars, summaryVars, tables>>

\* variant: the scan of the high tier removes the patterns it has tried
ClassifySeverityConsuming(t) ==
    /\ calls[t].pc = "severity"
    /\ calls' = [calls EXCEPT ![t].severity = SeverityFrom(tables, calls[t].notam_text.s),
                              ![t].pc = "impact"]
    /\ tables' = [tables EXCEPT !.severity_patterns["high"] = <<>>]
    /\ UNCHANGED <<notamVars, batchVars, weatherVars, routeVars, summaryVars>>

\* 'severity': self._classify_severity(notam_text)
ClassifySeverity(t) ==
    /\ calls[t].pc = "severity"
    /\ calls' = [calls EXCEPT ![t].severity = SeverityFrom(tables, calls[t].notam_text.s),
                              ![t].pc = "impact"]
    /\ UNCHANGED <<notamVars, batchVars, weatherVars, routeVars, summaryVars, tables>>

\* 'impact': self._analyze_impact(notam_text)
AnalyzeImpact(t) ==
    /\ calls[t].pc = "impact"
    /\ calls' = [calls EXCEPT ![t].impact = ImpactFrom(tables, calls[t].notam_text.s),
                              ![t].pc = "return"]
    /\ UNCHANGED <<notamVars, batchVars, weatherVars, routeVars, summaryVars, tables>>

\* the rest of the dictionary literal, the flight impact and the return, or
\* the except branch
Return(t) ==
    /\ calls[t].pc = "return"
    /\ calls' = [calls EXCEPT
                    ![t].result = Completed(parse(calls[t].notam_text, None, clock),
                                            calls[t].severity, calls[t].impact),
                    ![t].pc = "done"]
    /\ UNCHANGED <<notamVars, batchVars, weatherVars, routeVars, summaryVars, tables>>

NextShared ==
    \/ \E t \in Threads, w \in TextsOf(corpus) : Enter(t, w)
    \/ \E t \in Threads : ClassifySeverity(t)
    \/ \E t \in Threads : AnalyzeImpact(t)
    \/ \E t \in Threads : Return(t)
    \/ ParseMultiple
    \/ GetSummaryStatistics

SpecShared == InitShared /\ [][NextShared]_vars

\* the same threads on the texts about a fuel service
InitPair ==
    /\ corpus = "impact"
    /\ NotamIdle
    /\ notam_texts = SharedBatch
    /\ parsed_notams = NotCalled
    /\ statistics = NotCalled
    /\ WeatherIdle
    /\ RouteIdle
    /\ SummaryIdle
    /\ SharedIdle

SpecPair == InitPair /\ [][NextShared]_vars

(* ---------------------------------------------------------------- *)
(* Properties                                                       *)
(* ---------------------------------------------------------------- *)

\* the input of the last parse call is null, empty or not text
DegenerateInput == notam_text.kind # "str" \/ Len(notam_text.s) = 0

\* C1: parse never raises to its caller; for null, empty or non-text input it
\* returns a record carrying 'error', with severity 'unknown' and category
\* 'unknown'.
C1_ParseNeverRaises ==
    WasCalled(parsed) =>
        /\ ~parsed.raised
        /\ DegenerateInput =>
              /\ HasError(parsed)
              /\ parsed.value.severity = "unknown"
              /\ parsed.value.category = "unknown"

\* C2: parse_multiple returns exactly one record per input, in input order,
\* record i carrying sequence_number i; an input that cannot be parsed gets
\* an error record at its own position and the other inputs are still parsed.
C2_BatchIsolation ==
    WasCalled(parsed_notams) =>
        /\ ~parsed_notams.raised
        /\ Len(parsed_notams.value) = Len(notam_texts)
        /\ \A i \in 1..Len(notam_texts) :
              /\ parsed_notams.value[i].sequence_number = i
              /\ "error" \in DOMAIN parsed_notams.value[i]
                    <=> (notam_texts[i].kind # "str" \/ _extract_altitudes(notam_texts[i].s).raised)

\* C3: parsing the runway-closure sample without an airport hint yields
\* notam_id A1234/21, airport_code KORD, category runway, severity high and
\* a flight impact that asks for a go/no-go decision.
C3_RunwayClosureSample ==
    (WasCalled(parsed) /\ notam_text = Str(RunwayClosureSample) /\ airport_hint = None) =>
        /\ ~parsed.raised
        /\ ~HasError(parsed)
        /\ parsed.value.notam_id = Str(<<"A","1","2","3","4","/","2","1">>)
        /\ parsed.value.airport_code = Str(<<"K","O","R","D">>)
        /\ parsed.value.category = "runway"
        /\ parsed.value.severity = "high"
        /\ parsed.value.flight_impact.go_no_go_factor

\* C4: every text containing 'RUNWAY CLOSED', in any letter case and whatever
\* else it contains, is parsed to severity 'high' and category 'runway'.
C4_RunwayClosedIsHigh ==
    (WasCalled(parsed) /\ notam_text.kind = "str"
                       /\ Contains(Upper(notam_text.s), <<"R","U","N","W","A","Y"," ","C","L","O","S","E","D">>)) =>
        /\ ~parsed.raised
        /\ parsed.value.severity = "high"
        /\ parsed.value.category = "runway"

\* some pattern of the tier occurs in the lowercased text
TierHit(tier, text) == AnyMatch(severity_patterns[tier], Lower(text))

\* the tier the selection rule names for a text
SelectedTier(text) ==
    IF TierHit("high", text) THEN "high"
    ELSE IF TierHit("medium", text) THEN "medium"
    ELSE IF TierHit("low", text) THEN "low"
    ELSE "medium"

MonthDays(yy) ==
    <<31, IF yy % 4 = 0 THEN 29 ELSE 28, 31, 30, 31, 30, 31, 31, 30, 31, 30, 31>>

\* the ten digits read as YYMMDDhhmm form a calendar date and a time of day
CalendarValid(token) ==
    LET yy == ToInt(SubSeq(token, 1, 2))
        mm == ToInt(SubSeq(token, 3, 4))
        dd == ToInt(SubSeq(token, 5, 6))
        hh == ToInt(SubSeq(token, 7, 8))
        mi == ToInt(SubSeq(token, 9, 10))
    IN  /\ mm \in 1..12
        /\ dd >= 1
        /\ dd <= MonthDays(yy)[mm]
        /\ hh <= 23
        /\ mi <= 59

\* '20YY-MM-DDThh:mm:00Z' written from the digits of the token
IsoOfToken(token) ==
    <<"2","0">> \o SubSeq(token, 1, 2) \o <<"-">> \o SubSeq(token, 3, 4) \o <<"-">> \o SubSeq(token, 5, 6)
        \o <<"T">> \o SubSeq(token, 7, 8) \o <<":">> \o SubSeq(token, 9, 10) \o <<":","0","0","Z">>

\* the field a captured token must produce
ExpectedInstant(token) ==
    IF token = None THEN None
    ELSE IF CalendarValid(token.s) THEN Str(IsoOfToken(token.s))
    ELSE None

\* C6: each captured 10-digit token is read as YYMMDDhhmm, year 2000 + YY, and
\* stored as an ISO-8601 UTC string ending in Z; an invalid token leaves only
\* its own field null, and parse still returns a record without 'error'.
C6_DateConversion ==
    (WasCalled(parsed) /\ notam_text.kind = "str") =>
        LET low == Lower(notam_text.s)
            from == LastCaptured(time_patterns.effective_from, low)
            until == LastCaptured(time_patterns.effective_until, low)
        IN  (from # None \/ until # None) =>
               /\ ~parsed.raised
               /\ ~HasError(parsed)
               /\ parsed.value.effective_from = ExpectedInstant(from)
               /\ parsed.value.effective_until = ExpectedInstant(until)

\* the labels of the severe checklist
SevereLabels ==
    { "Thunderstorms present",
      "Strong gusting winds (30+ knots)",
      "Extremely low visibility (< 1 mile)",
      "Extremely low ceiling (< 500 feet)",
      "Freezing precipitation",
      "Heavy precipitation",
      "Severe icing conditions" }

\* C7: when at least one severe condition is found the category is 'Severe'
\* and the significant checklist is skipped: conditions_present holds severe
\* entries only, so 'TS BR' reports the thunderstorm and not the mist.
C7_SevereShortCircuit ==
    (WasCalled(weather) /\ metar_text.kind = "str") =>
        LET present == weather.conditions_present
        IN  /\ (\E i \in 1..Len(present) : present[i] \in SevereLabels) =>
                  /\ weather.category = "Severe"
                  /\ \A j \in 1..Len(present) : present[j] \in SevereLabels
            /\ Contains(Upper(metar_text.s), <<"T","S">>) =>
                  /\ weather.category = "Severe"
                  /\ \E i \in 1..Len(present) : present[i] = "Thunderstorms present"
                  /\ \A j \in 1..Len(present) : present[j] # "Visibility restrictions (mist/fog/haze)"

\* a report with a thunderstorm and mist has been categorized
C7_Witness ==
    /\ WasCalled(weather)
    /\ metar_text.kind = "str"
    /\ Contains(metar_text.s, <<" ","T","S">>)
    /\ Contains(metar_text.s, <<" ","B","R">>)
    /\ weather.category = "Severe"
    /\ weather.conditions_present = <<"Thunderstorms present">>

\* the visibility group of the report: digits followed by SM
reported_visibility == Pat1(<<Plus(Digit), Lit(<<"S","M">>)>>, 1, 1)

\* the category the thresholds give for v statute miles and a ceiling of c feet
ThresholdCategory(v, c) ==
    IF v >= 5 /\ c >= 3000 THEN "VFR"
    ELSE IF v >= 3 /\ c >= 1000 THEN "MVFR"
    ELSE IF v >= 1 /\ c >= 500 THEN "IFR"
    ELSE "LIFR"

\* C8: with reported visibility v (whole statute miles) and the first BKN/OVC layer at c feet the
\* flight category is VFR if v >= 5 and c >= 3000, else MVFR if v >= 3 and
\* c >= 1000, else IFR if v >= 1 and c >= 500, else LIFR; it is 'Unknown'
\* exactly when the visibility or the ceiling group is absent.
C8_FlightCategory ==
    (WasCalled(metar_summary) /\ metar_text.kind = "str" /\ ~Contains(metar_text.s, <<"/">>)) =>
        LET vis == ReSearch(reported_visibility, metar_text.s)
            ceil == ReSearch(ceiling_pattern, metar_text.s)
        IN  IF vis.found /\ ceil.found
            THEN metar_summary.flight_category =
                     ThresholdCategory(ToInt(GroupChars(reported_visibility, metar_text.s, vis, 1)),
                                       100 * ToInt(GroupChars(ceiling_pattern, metar_text.s, ceil, 2)))
            ELSE metar_summary.flight_category = "Unknown"

\* every station of the request reports text
WellFormed(data) ==
    \A i \in 1..Len(data.current_conditions) : data.current_conditions[i].rawOb.kind = "str"

\* C9: adding a station snapshot or an active SIGMET/AIRMET never lowers
\* severity_score, and once severity_score >= 7 the status is 'NO-GO'.
C9_MonotonicRisk ==
    [][ WellFormed(weather_data') =>
           /\ assessment'.severity_score >= assessment.severity_score
           /\ assessment'.severity_score >= 7 => assessment'.overall_status = "NO-GO"
      ]_vars

\* several hazardous elements have accumulated to NO-GO, one reaching 7 exactly
C9_Witness ==
    /\ WellFormed(weather_data)
    /\ Len(weather_data.current_conditions) >= 2
    /\ assessment.severity_score = 7
    /\ assessment.overall_status = "NO-GO"

\* C10: on the normal return path the score s maps to NO-GO/HIGH for s >= 7,
\* CAUTION/MEDIUM for 4..6, GO/MEDIUM for 2..3 and GO/HIGH for s < 2, with
\* exactly one canonical recommendation.
C10_StatusStep ==
    WellFormed(weather_data) =>
        LET s == assessment.severity_score
            tier == <<assessment.overall_status, assessment.confidence, assessment.recommendations>>
        IN  /\ s >= 7 =>
                  tier = <<"NO-GO", "HIGH", <<"Do not attempt flight - severe conditions">>>>
            /\ s \in 4..6 =>
                  tier = <<"CAUTION", "MEDIUM",
                           <<"Exercise extreme caution - consider alternate plans">>>>
            /\ s \in 2..3 =>
                  tier = <<"GO", "MEDIUM", <<"Proceed with caution - monitor conditions">>>>
            /\ s < 2 =>
                  tier = <<"GO", "HIGH", <<"Good conditions for flight">>>>

\* a request whose risks add up to the GO/MEDIUM tier has been assessed
C10_Witness ==
    /\ WellFormed(weather_data)
    /\ Len(weather_data.current_conditions) >= 1
    /\ assessment.severity_score \in 2..3
    /\ assessment.overall_status = "GO"
    /\ assessment.confidence = "MEDIUM"

\* the three station rules read from one uppercased observation
SevereToken(ob) == ContainsAny(Upper(ob), {<<"T","S">>, <<"F","Z","R","A">>, <<"+","S","N">>})
IfrToken(ob) == ContainsAny(Upper(ob), {<<"O","V","C">>, <<"1","S","M">>, <<"2","S","M">>})
WindOver(ob) ==
    LET m == ReSearch(route_wind, Upper(ob))
    IN  /\ m.found
        /\ \/ ToInt(GroupChars(route_wind, Upper(ob), m, 1)) > 25
           \/ /\ Group(route_wind, Upper(ob), m, 2) # None
              /\ ToInt(Group(route_wind, Upper(ob), m, 2).s) > 35
Points(fired, n) == IF fired THEN n ELSE 0
StationPoints(ob) == Points(SevereToken(ob), 3) + Points(IfrToken(ob), 1) + Points(WindOver(ob), 2)
StationEntries(ob) == Points(SevereToken(ob), 1) + Points(IfrToken(ob), 1) + Points(WindOver(ob), 1)

RECURSIVE RoutePoints(_, _)
RoutePoints(stations, i) ==
    IF i > Len(stations) THEN 0
    ELSE StationPoints(stations[i].rawOb.s) + RoutePoints(stations, i + 1)
RECURSIVE RouteEntries(_, _)
RouteEntries(stations, i) ==
    IF i > Len(stations) THEN 0
    ELSE StationEntries(stations[i].rawOb.s) + RouteEntries(stations, i + 1)

\* factor occurs exactly once in the list
ListedOnce(factors, factor) == Cardinality({j \in 1..Len(factors) : factors[j] = factor}) = 1
Listed(factors, factor) == \E j \in 1..Len(factors) : factors[j] = factor

BackendFailed ==
    \/ request.reply.kind = "raise"
    \/ Len(request.reply.items) = 0
    \/ request.reply.items[1] = None
    \/ Len(request.reply.items[1].s) = 0

\* C12: summarize(text) never surfaces a backend failure: whenever the
\* backend call times out, errors, answers with a failure status or returns
\* an empty or missing summary, summarize returns exactly the rule-based
\* fallback summary of the original input text; with no backend configured
\* no backend call is made.
C12_FallbackOnFailure ==
    (WasCalled(summary) /\ request.op = "summarize") =>
        /\ BackendFailed => summary.summary = _fallback_summary(report_data)
        /\ config.provider = "fallback" => summary.posts = 0

SixReportTypes == {<<"m","e","t","a","r">>, <<"t","a","f">>, <<"p","i","r","e","p">>, <<"s","i","g","m","e","t">>, <<"a","i","r","m","e","t">>, <<"n","o","t","a","m">>}

\* C13: for each of the six report types and every payload, when a backend
\* is configured but its call fails, summarize_report returns the same
\* string as the rule-based summary of that report type returned when no
\* backend is configured.
C13_FallbackEquivalence ==
    (/\ WasCalled(summary)
     /\ request.op = "summarize_report"
     /\ Lower(request.report_type) \in SixReportTypes
     /\ config.provider # "fallback"
     /\ BackendFailed) =>
        summary.summary =
            summarize_report("fallback", None, report_data, request.report_type, request.reply).summary

\* the closure terms of the closure entry of the impact table
ClosureTerms == {<<"c","l","o","s","e","d">>, <<"c","l","s","d">>, <<"n","o","t"," ","a","v","a","i","l","a","b","l","e">>, <<"o","u","t"," ","o","f"," ","s","e","r","v","i","c","e">>, <<"u","n","a","v","b","l">>}
HighRule(record) ==
    \/ record.severity = "high"
    \/ record.category \in {"runway", "approach"}
    \/ ContainsAny(Lower(record.description.s), ClosureTerms)
MediumRule(record) ==
    \/ record.severity = "medium"
    \/ record.category \in {"taxiway", "navigation", "lighting"}
    \/ record.impact.severity_score >= 3

\* C14: overall_impact is 'high' with go_no_go_factor and
\* pilot_action_required set when severity is high, or category is runway or
\* approach, or the cleaned description contains a closure term (closed,
\* clsd, not available, out of service, unavbl); otherwise 'medium' with
\* alternate_procedures and pilot_action_required set when severity is
\* medium, or category is taxiway, navigation or lighting, or
\* impact.severity_score >= 3; otherwise 'low' with no flag set.
C14_FlightImpactRule ==
    (WasCalled(parsed) /\ ~parsed.raised /\ ~HasError(parsed)) =>
        LET record == parsed.value
            flags == record.flight_impact
        IN  IF HighRule(record)
            THEN /\ flags.overall_impact = "high"
                 /\ flags.go_no_go_factor
                 /\ flags.pilot_action_required
            ELSE IF MediumRule(record)
            THEN /\ flags.overall_impact = "medium"
                 /\ flags.alternate_procedures
                 /\ flags.pilot_action_required
            ELSE /\ flags.overall_impact = "low"
                 /\ ~flags.go_no_go_factor
                 /\ ~flags.alternate_procedures
                 /\ ~flags.pilot_action_required

\* four capital letters start at position p
FourLetters(text, p) == p + 3 <= Len(text) /\ \A k \in 0..3 : text[p + k] \in UpperSet
\* the positions where the marker stands, followed by blanks and four letters
MarkerAt(text, marker, p) ==
    /\ p + 1 <= Len(text)
    /\ SubSeq(text, p, p + 1) = marker
    /\ \E q \in (p + 2)..Len(text) :
          /\ \A k \in (p + 2)..(q - 1) : text[k] \in SpaceSet
          /\ FourLetters(text, q)
\* the four letters behind the first such marker
AfterMarker(text, marker) ==
    LET p == Min({i \in 1..Len(text) : MarkerAt(text, marker, i)})
        q == Min({i \in (p + 2)..Len(text) : text[i] \notin SpaceSet})
    IN  Str(SubSeq(text, q, q + 3))
\* a four-letter token that is a word of its own starts at p
BareTokenAt(text, p) ==
    /\ FourLetters(text, p)
    /\ (p = 1 \/ text[p - 1] \notin WordSet)
    /\ (p + 4 > Len(text) \/ text[p + 4] \notin WordSet)
\* the code the resolution order names for an uppercased text
ResolvedCode(text) ==
    IF \E p \in 1..Len(text) : MarkerAt(text, <<"A",")">>, p) THEN AfterMarker(text, <<"A",")">>)
    ELSE IF \E p \in 1..Len(text) : MarkerAt(text, <<"Q",")">>, p) THEN AfterMarker(text, <<"Q",")">>)
    ELSE IF \E p \in 1..Len(text) : BareTokenAt(text, p)
    THEN Str(SubSeq(text, Min({p \in 1..Len(text) : BareTokenAt(text, p)}),
                    Min({p \in 1..Len(text) : BareTokenAt(text, p)}) + 3))
    ELSE None

\* C15: a parsed record carries the explicit hint when one is given;
\* otherwise the code after an A) marker; otherwise the code after a Q)
\* marker; otherwise the first bare four-letter token; the first rule that
\* succeeds wins, and a code extracted without a hint is exactly four
\* letters or null.
C15_AirportCodeOrder ==
    (WasCalled(parsed) /\ notam_text.kind = "str" /\ ~HasError(parsed)) =>
        /\ airport_hint # None => parsed.value.airport_code = airport_hint
        /\ airport_hint = None =>
              /\ parsed.value.airport_code = ResolvedCode(Upper(notam_text.s))
              /\ \/ parsed.value.airport_code = None
                 \/ /\ Len(parsed.value.airport_code.s) = 4
                    /\ \A k \in 1..4 : parsed.value.airport_code.s[k] \in UpperSet

\* no hint and a Q) marker before the A) marker: the A) code wins
C15_Witness ==
    /\ WasCalled(parsed)
    /\ ~HasError(parsed)
    /\ airport_hint = None
    /\ notam_text = Str(<<"Q",")","K","J","F","K","/","Q","M","X","L","C"," ","A",")"," ","K","S","F","O">>)
    /\ parsed.value.airport_code = Str(<<"K","S","F","O">>)

\* n digits start at position p
DigitsAt(text, p, n) == p >= 1 /\ p + n - 1 <= Len(text) /\ \A k \in 0..(n - 1) : text[p + k] \in DigitSet
\* a DDMMSS[N|S]DDDMMSS[E|W] token whose latitude starts at p and whose
\* longitude starts at q
TokenAt(text, p, q) ==
    /\ DigitsAt(text, p, 6)
    /\ p + 6 <= Len(text)
    /\ text[p + 6] \in {"N", "S"}
    /\ q >= p + 7
    /\ \A k \in (p + 7)..(q - 1) : text[k] \in SpaceSet
    /\ DigitsAt(text, q, 7)
    /\ q + 7 <= Len(text)
    /\ text[q + 7] \in {"E", "W"}
Tokens6(text) == {t \in (1..Len(text)) \X (1..Len(text)) : TokenAt(text, t[1], t[2])}
FirstToken(text) == CHOOSE t \in Tokens6(text) : \A u \in Tokens6(text) : t[1] <= u[1]
\* 3600 * (D + M/60 + S/3600) of the digits DMS
ArcSeconds(d, m, s) == 3600 * ToInt(d) + 60 * ToInt(m) + ToInt(s)

\* C16: for every DDMMSS[N|S]DDDMMSS[E|W] token, latitude = D + M/60 + S/3600
\* and longitude likewise (415530N0874830W gives about 41.925, -87.8083),
\* latitude negative exactly when the latitude letter is S and longitude
\* negative exactly when the longitude letter is W.
C16_CoordinateConversion ==
    (/\ WasCalled(parsed)
     /\ notam_text.kind = "str"
     /\ ~HasError(parsed)
     /\ Tokens6(Upper(notam_text.s)) # {}) =>
        LET text == Upper(notam_text.s)
            p == FirstToken(text)[1]
            q == FirstToken(text)[2]
            found == parsed.value.coordinates
        IN  /\ found # None
            /\ found.latitude.arcseconds =
                  ArcSeconds(SubSeq(text, p, p + 1), SubSeq(text, p + 2, p + 3), SubSeq(text, p + 4, p + 5))
            /\ found.longitude.arcseconds =
                  ArcSeconds(SubSeq(text, q, q + 2), SubSeq(text, q + 3, q + 4), SubSeq(text, q + 5, q + 6))
            /\ found.latitude.negative <=> text[p + 6] = "S"
            /\ found.longitude.negative <=> text[q + 7] = "W"
            /\ notam_text.s = <<"4","1","5","5","3","0","N","0","8","7","4","8","3","0","W">> =>
                  \* within 0.001 degree (3.6 arcseconds) of 41.925 and of -87.8083
                  /\ found.latitude.arcseconds \in 150927..150933
                  /\ ~found.latitude.negative
                  /\ found.longitude.arcseconds \in 316107..316113
                  /\ found.longitude.negative

\* a southern, eastern position written with a blank and with seconds
C16_Witness ==
    /\ WasCalled(parsed)
    /\ ~HasError(parsed)
    /\ notam_text = Str(<<"3","3","5","6","3","0","S"," ","1","5","1","1","0","3","8","E">>)
    /\ parsed.value.coordinates.latitude = [negative |-> TRUE, arcseconds |-> 122190]
    /\ parsed.value.coordinates.longitude = [negative |-> FALSE, arcseconds |-> 544238]

\* C17: two parse calls with the same text and the same airport hint return
\* equal records: a repeated call leaves the outcome as it was.
C17_Determinism ==
    [][(/\ WasCalled(parsed)
        /\ WasCalled(parsed')
        /\ notam_text' = notam_text
        /\ airport_hint' = airport_hint) => parsed' = parsed]_vars

\* the sum of the counts of a table
RECURSIVE SumOver(_, _)
SumOver(table, keys) ==
    IF keys = {} THEN 0
    ELSE LET k == CHOOSE x \in keys : TRUE
         IN  table[k] + SumOver(table, keys \ {k})
Total(table) == SumOver(table, DOMAIN table)
\* the total a statistics dictionary reports, under either of its two keys
ReportedTotal(stats) == IF "total_notams" \in DOMAIN stats THEN stats.total_notams ELSE stats.total
WithoutError(records) == Cardinality({i \in 1..Len(records) : "error" \notin DOMAIN records[i]})
\* total, severity counts, category counts and keyword bound of a dictionary
Consistent(stats, records) ==
    /\ ReportedTotal(stats) = Len(records)
    /\ "by_severity" \in DOMAIN stats
    /\ Total(stats.by_severity) = WithoutError(records)
    /\ "by_category" \in DOMAIN stats
    /\ Total(stats.by_category) = WithoutError(records)
    /\ "most_common_keywords" \in DOMAIN stats
    /\ Cardinality(DOMAIN stats.most_common_keywords) <= 10

\* C18: for every list parse_multiple returned, get_summary_statistics reports
\* a total equal to the length of the list, by_severity counts and
\* by_category counts that each sum to the number of records without an
\* 'error' field, and at most ten keywords.
C18_StatisticsConsistent ==
    WasCalled(statistics) =>
        /\ ~statistics.raised
        /\ Consistent(statistics.value, parsed_notams.value)

\* the same for the lists that have at least one record
NonEmptyStatisticsConsistent ==
    (WasCalled(statistics) /\ Len(notam_texts) > 0) =>
        /\ ~statistics.raised
        /\ Consistent(statistics.value, parsed_notams.value)

\* statistics of a list with an error record and more than ten keywords
ElevenKeywords ==
    /\ WasCalled(statistics)
    /\ Len(parsed_notams.value) = 3
    /\ WithoutError(parsed_notams.value) = 2
    /\ Cardinality(DOMAIN statistics.value.most_common_keywords) = 10
    /\ Cardinality(UNION {parsed_notams.value[i].keywords :
                             i \in {j \in 1..3 : "error" \notin DOMAIN parsed_notams.value[j]}}) > 10

\* the classification of a record
Classification(record) ==
    [f \in DOMAIN record \cap {"severity", "category", "type", "impact", "flight_impact"} |-> record[f]]

\* C19: no step of a parse, parse_multiple or get_summary_statistics call
\* changes the pattern tables, and whatever the interleaving of the threads'
\* parse calls on the shared parser, a call that has returned holds the
\* classification fields the same call returns when it runs alone.
C19_SharedTables ==
    /\ tables = PatternTables
    /\ \A t \in Threads :
          calls[t].pc = "done" =>
              /\ ~calls[t].result.raised
              /\ Classification(calls[t].result.value)
                    = Classification(parse(calls[t].notam_text, None, clock).value)

\* both threads have returned from parse, one with a high-severity closure,
\* one with a closure impact, and parse_multiple and get_summary_statistics
\* have run on the same parser
C19_Witness ==
    /\ calls[1].pc = "done"
    /\ calls[2].pc = "done"
    /\ calls[1].notam_text = Str(<<"R","U","N","W","A","Y"," ","C","L","O","S","E","D">>)
    /\ calls[1].result.value.severity = "high"
    /\ calls[2].notam_text = Str(<<"T","W","Y"," ","A"," ","C","L","S","D">>)
    /\ calls[2].result.value.impact.type = "closure"
    /\ WasCalled(statistics)

\* C20: for every NOTAM text string, parse returns a dictionary with the
\* fields notam_id, airport, raw_text, parsed_at and type, in which raw_text
\* is the input, airport equals airport_code and type equals category.
C20_ResultStructure ==
    (WasCalled(parsed) /\ notam_text.kind = "str") =>
        /\ ~parsed.raised
        /\ {"notam_id", "airport", "raw_text", "parsed_at", "type"} \subseteq DOMAIN parsed.value
        /\ parsed.value.raw_text = notam_text
        /\ parsed.value.airport = parsed.value.airport_code
        /\ parsed.value.type = parsed.value.category

\* the same for the calls that do not end in the except branch of parse
CompleteResultStructure ==
    (WasCalled(parsed) /\ notam_text.kind = "str" /\ ~HasError(parsed)) =>
        /\ ~parsed.raised
        /\ {"notam_id", "airport", "raw_text", "parsed_at", "type"} \subseteq DOMAIN parsed.value
        /\ parsed.value.raw_text = notam_text
        /\ parsed.value.airport = parsed.value.airport_code
        /\ parsed.value.type = parsed.value.category

\* an altitude pattern has captured digits that int() does not accept
UnconvertibleAltitude(text) ==
    \E j \in 1..Len(AltitudeHits(Lower(text), 1)) :
        ~IsIntLiteral(AltitudeHits(Lower(text), 1)[j].captured)

\* C21: when the altitude sub-step fails on a captured value that is not an
\* integer, parse still returns a record without an 'error' field that holds
\* the identifier, the airport, and the severity and category extracted from
\* the text, not the 'unknown' sentinels.
C21_LocalFailure ==
    (WasCalled(parsed) /\ notam_text.kind = "str" /\ UnconvertibleAltitude(notam_text.s)) =>
        /\ ~parsed.raised
        /\ "error" \notin DOMAIN parsed.value
        /\ {"notam_id", "airport", "severity", "category"} \subseteq DOMAIN parsed.value
        /\ parsed.value.severity = _classify_severity(notam_text.s)
        /\ parsed.value.category = _determine_category(notam_text.s)

\* the three outcomes of the categorization
CategoryPairs == { <<"Severe", "Critical">>, <<"Significant", "Moderate">>, <<"Clear", "Minimal">> }
\* a condition of the severe, of the significant checklist occurs in the text
SevereMatched(text) == Len(SevereFindings(Upper(text))) > 0
SignificantMatched(text) == Len(SignificantFindings(Upper(text))) > 0

gust_group == Pat1(<<Lit(<<"G">>), Rep(Digit, 2, 3), Lit(<<"K","T">>)>>, 2, 2)
GustReported(text) == Matches(gust_group, Upper(text))
Gust(text) == ToInt(GroupChars(gust_group, Upper(text), ReSearch(gust_group, Upper(text)), 1))

\* C23: for every reported gust g, the category is Severe when g >= 30, and
\* when 20 <= g <= 29 and no severe condition is present the category is
\* Significant and the moderate-gust condition is listed.
C23_GustBanding ==
    (WasCalled(weather) /\ metar_text.kind = "str" /\ GustReported(metar_text.s)) =>
        /\ Gust(metar_text.s) >= 30 => weather.category = "Severe"
        /\ (Gust(metar_text.s) \in 20..29 /\ ~SevereMatched(metar_text.s)) =>
              /\ weather.category = "Significant"
              /\ \E i \in 1..Len(weather.conditions_present) :
                    weather.conditions_present[i] = "Moderate wind gusts (20-29 knots)"

\* the visibility group: a fraction of a mile or whole miles
visibility_fraction == <<Alt(<<One(Digit), Lit(<<"/">>), One(Digit), Lit(<<"S","M">>)>>, <<<<1, 1>>, <<3, 3>>>>)>>
visibility_miles == Pat1(<<WordB, Plus(Digit), Lit(<<"S","M">>)>>, 2, 2)
FractionBelowOne(text, m) ==
    ToInt(GroupChars(visibility_fraction, text, m, 1)) < ToInt(GroupChars(visibility_fraction, text, m, 2))
\* the visibility the report gives is less than one statute mile
BelowOneMile(text) ==
    IF Matches(visibility_fraction, text)
    THEN FractionBelowOne(text, ReSearch(visibility_fraction, text))
    ELSE /\ Matches(visibility_miles, text)
         /\ ToInt(GroupChars(visibility_miles, text, ReSearch(visibility_miles, text), 1)) < 1
\* the report gives a visibility of ten miles
TenMiles(text) ==
    /\ ~Matches(visibility_fraction, text)
    /\ Matches(visibility_miles, text)
    /\ ToInt(GroupChars(visibility_miles, text, ReSearch(visibility_miles, text), 1)) = 10
\* the report without its visibility group
ten_miles == Pat(<<Lit(<<"1","0","S","M">>)>>)
CutAt(text, m) == SubSeq(text, 1, m.start - 1) \o SubSeq(text, m.stop, Len(text))
WithoutVisibility(text) == CutAt(text, ReSearch(ten_miles, text))
NoOtherCondition(text) ==
    /\ Len(SevereFindings(WithoutVisibility(text))) = 0
    /\ Len(SignificantFindings(WithoutVisibility(text))) = 0

\* C24: the severe low-visibility condition is reported exactly when the
\* reported visibility is below 1 statute mile, and a report with 10SM and no
\* other checklist condition is categorized Clear with flight_impact Minimal.
C24_LowVisibility ==
    (WasCalled(weather) /\ metar_text.kind = "str") =>
        /\ (\E i \in 1..Len(weather.conditions_present) :
               weather.conditions_present[i] = "Extremely low visibility (< 1 mile)")
              <=> BelowOneMile(Upper(metar_text.s))
        /\ (TenMiles(Upper(metar_text.s)) /\ NoOtherCondition(Upper(metar_text.s))) =>
              /\ weather.category = "Clear"
              /\ weather.flight_impact = "Minimal"

\* the checklist: each condition with its rationale, the severe conditions
\* first; the steady-wind condition, whose text holds the speed, comes last
Checklist ==
    << <<"Thunderstorms present", "Electrical activity and severe turbulence risk">>,
       <<"Strong gusting winds (30+ knots)", "Severe wind gusts affecting aircraft control">>,
       <<"Extremely low visibility (< 1 mile)", "Visibility below safe minimums for most operations">>,
       <<"Extremely low ceiling (< 500 feet)", "Ceiling below approach minimums">>,
       <<"Freezing precipitation", "Severe aircraft icing conditions">>,
       <<"Heavy precipitation", "Reduced visibility and aircraft performance impact">>,
       <<"Severe icing conditions", "Critical aircraft icing hazard">>,
       <<"Moderate wind gusts (20-29 knots)", "Increased difficulty in aircraft handling">>,
       <<"Reduced visibility (1-3 miles)", "IFR conditions requiring instrument approach">>,
       <<"Low ceiling (500-2000 feet)", "Restricted VFR operations">>,
       <<"Light to moderate precipitation", "Potential visibility reduction">>,
       <<"Visibility restrictions (mist/fog/haze)", "Reduced visibility conditions">> >>
IsStrongWinds(condition) ==
    \E n \in 15..99 : condition = "Strong winds (" \o ToString(n) \o " knots)"
\* place of a condition in the checklist, 0 for a text that is no condition
ChecklistPlace(condition) ==
    IF IsStrongWinds(condition) THEN Len(Checklist) + 1
    ELSE FirstOr0({i \in 1..Len(Checklist) : Checklist[i][1] = condition})
RationaleAt(place) ==
    IF place = Len(Checklist) + 1 THEN "Challenging crosswind conditions" ELSE Checklist[place][2]

C26_FlightImpactFunction ==
    \A t, u \in Threads :
        (/\ calls[t].pc = "done" /\ ~HasError(calls[t].result)
         /\ calls[u].pc = "done" /\ ~HasError(calls[u].result)
         /\ calls[t].result.value.severity = calls[u].result.value.severity
         /\ calls[t].result.value.category = calls[u].result.value.category
         /\ calls[t].result.value.impact = calls[u].result.value.impact)
            => calls[t].result.value.flight_impact = calls[u].result.value.flight_impact

\* a facility named in the text: the marker of a type followed by an identifier
Named ==
    [runway |-> Pat1(<<Lit(<<"R","W","Y">>), Star(Space), Rep(Digit, 2, 2), Opt(Cls({"L", "R", "C"}))>>, 3, 4),
     taxiway |-> Pat1(<<Lit(<<"T","W","Y">>), Star(Space), One(Upcase), Opt(Digit)>>, 3, 4),
     navaid |-> Pat1(<<Lit(<<"V","O","R">>), Star(Space), Rep(Upcase, 3, 3)>>, 3, 3)]
\* the identifiers named for one type, one per occurrence
Mentions(type, text) ==
    [i \in 1..Len(FindIter(Named[type], text)) |->
        GroupChars(Named[type], text, FindIter(Named[type], text)[i], 1)]
\* the entries of one type that carry a given identifier, in either case
EntriesFor(facilities, type, id) ==
    {i \in 1..Len(facilities) : facilities[i].type = type /\ Upper(facilities[i].identifier.s) = id}

\* C27: for each facility type and each occurrence in the text of that type's
\* marker followed by an identifier (RWY 10L, TWY A, VOR ABC),
\* affected_facilities holds an entry of that type with that identifier, one
\* for every occurrence at least, hits never being merged.
C27_FacilityHits ==
    (WasCalled(parsed) /\ notam_text.kind = "str" /\ ~HasError(parsed) /\ ~parsed.raised) =>
        \A type \in DOMAIN Named :
            \A i \in 1..Len(Mentions(type, notam_text.s)) :
                Cardinality(EntriesFor(parsed.value.affected_facilities, type,
                                       Mentions(type, notam_text.s)[i]))
                    >= Cardinality({j \in 1..Len(Mentions(type, notam_text.s)) :
                                       Mentions(type, notam_text.s)[j] = Mentions(type, notam_text.s)[i]})

\* the timestamp of the first pattern of a role that matches, in table order
FirstStamp(role, text) == ParsedToken(FirstGroup1(time_patterns[role], Lower(text)))

\* C28: effective_from and effective_until are taken from the first pattern
\* of their role that matches, in table order; a later matching pattern of
\* the same role neither replaces the value nor resets it to null.
C28_FirstPatternWins ==
    (WasCalled(parsed) /\ notam_text.kind = "str" /\ ~parsed.raised /\ ~HasError(parsed)) =>
        /\ parsed.value.effective_from = FirstStamp("effective_from", notam_text.s)
        /\ parsed.value.effective_until = FirstStamp("effective_until", notam_text.s)

\* C29: in every record parse returns without an 'error' field,
\* go_no_go_factor is true exactly when overall_impact is 'high',
\* alternate_procedures exactly when it is 'medium', the two are never both
\* true, pilot_action_required is true exactly when one of them is, and
\* overall_impact is 'low' only when the severity is 'low'.
C29_FlagConsistency ==
    (WasCalled(parsed) /\ ~parsed.raised /\ ~HasError(parsed)) =>
        /\ parsed.value.flight_impact.go_no_go_factor
              <=> (parsed.value.flight_impact.overall_impact = "high")
        /\ parsed.value.flight_impact.alternate_procedures
              <=> (parsed.value.flight_impact.overall_impact = "medium")
        /\ ~(parsed.value.flight_impact.go_no_go_factor
                /\ parsed.value.flight_impact.alternate_procedures)
        /\ parsed.value.flight_impact.pilot_action_required
              <=> (parsed.value.flight_impact.go_no_go_factor
                      \/ parsed.value.flight_impact.alternate_procedures)
        /\ (parsed.value.flight_impact.overall_impact = "low") => (parsed.value.severity = "low")

\* an advisory of low severity is assessed 'low' with no flag set
C29_Witness ==
    /\ WasCalled(parsed) /\ ~parsed.raised /\ ~HasError(parsed)
    /\ notam_text = Str(<<"P","I","L","O","T","S"," ","A","D","V","I","S","E","D">>)
    /\ parsed.value.severity = "low"
    /\ parsed.value.flight_impact.overall_impact = "low"
    /\ ~parsed.value.flight_impact.pilot_action_required

\* the most one station, the SIGMETs and the AIRMETs can add to the score
StationLimit == 3 + 1 + 2
HazardLimit(hazards) ==
    (IF Len(hazards.sigmets) > 0 THEN 2 ELSE 0) + (IF Len(hazards.airmets) > 0 THEN 1 ELSE 0)

\* C30: a station snapshot adds at most 6 to severity_score (3 + 1 + 2, each
\* rule once however many tokens match), so the assessment of one station
\* without SIGMET and AIRMET is never NO-GO.
C30_StationBound ==
    /\ (assessment.overall_status # "UNKNOWN") =>
           assessment.severity_score
               <= StationLimit * Len(weather_data.current_conditions) + HazardLimit(weather_data.hazards)
    /\ (/\ Len(weather_data.current_conditions) = 1
        /\ Len(weather_data.hazards.sigmets) = 0
        /\ Len(weather_data.hazards.airmets) = 0)
           => (assessment.severity_score <= StationLimit /\ assessment.overall_status # "NO-GO")

\* one station whose report holds a token of the severe rule, two of the IFR
\* rule and a gust above 35 knots: the score is 6 and the status CAUTION
C30_Witness ==
    /\ Len(weather_data.current_conditions) = 1
    /\ weather_data.current_conditions[1].rawOb = Str(<<"2","7","0","2","0","G","4","0","K","T"," ","1","S","M"," ","+","S","N"," ","O","V","C","0","0","5">>)
    /\ Len(weather_data.hazards.sigmets) = 0
    /\ Len(weather_data.hazards.airmets) = 0
    /\ assessment.severity_score = 6
    /\ assessment.overall_status = "CAUTION"
====
